---- MODULE Spec2Model ----
(***************************************************************************)
(* A model of the signed NetSuite API client of app/services/netsuite.py   *)
(* (NetSuiteClient: construction, OAuth 1.0a signing, _make_request,       *)
(* get_records, get_record, get_sublist, execute_suiteql), of the cache of *)
(* app/utils/cache.py (CacheManager) and of the cached endpoints of        *)
(* main.py that run as tasks of one event loop.                            *)
(*                                                                         *)
(* The specifications share the variables:                                 *)
(*   SpecExec   one call of _make_request with any attempt budget, against *)
(*              a transport that may answer each attempt in any way;       *)
(*   SpecExecFair  SpecExec with the event loop running every step that    *)
(*              stays enabled: the send, the answer, the end of a sleep;   *)
(*   SpecSign   _get_oauth_headers applied to bounded clients, methods,    *)
(*              URLs, request parameters and nonces;                       *)
(*   SpecHandlers  two tasks serving cached endpoints over the one shared  *)
(*              CacheManager, interleaved only where a task awaits;        *)
(*   SpecServe  requests to the records and custom endpoints served one    *)
(*              after the other over the one CacheManager, with the query  *)
(*              parameters, no_cache and the failures of the fetch;        *)
(*   Spec       construction of a client, then one get_records call (the   *)
(*              list request and the per-item detail requests);            *)
(*   SpecCalls  one call of get_record, get_sublist, execute_suiteql, or   *)
(*              of get_records without expansion, with its request;        *)
(*   SpecCache  CacheManager operations against a clock;                   *)
(*   SpecStats  get_stats after any number of counted lookups;             *)
(*   SpecCacheFault  CacheManager operations over a store that can fail.   *)
(***************************************************************************)
EXTENDS Integers, Sequences, FiniteSets, TLC

VARIABLES
    client,          \* the NetSuiteClient: NoClient, a constructed client, or the ValueError
    signatures,      \* number of OAuth signatures computed so far
    requests,        \* number of upstream HTTP requests sent so far
    inflight,        \* targets of the upstream requests sent and not yet answered
    mr_pc,           \* _make_request: "idle", "send", "await", "sleep", "done"
    target,          \* what the running _make_request call fetches: Direct, ListTarget or DetailTarget(i)
    retries,         \* _make_request: the retries argument
    attempt,         \* _make_request: the loop variable
    delay,           \* _make_request: the delay handed to asyncio.sleep
    attempts,        \* what the transport answered, one entry per attempt of the running call
    waits,           \* the backoff sleeps of the running call, in order
    mr_result,       \* how the _make_request call ended: a return value or a raised exception
    gr_pc,           \* get_records: "idle", "list", "loop", "detail", "done"
    expand_details,  \* get_records: the expand_details argument
    data,            \* get_records: the parsed list response
    items,           \* get_records: the items local
    idx,             \* get_records: position of the for loop in items (1-indexed)
    detailed_items,  \* get_records: the detailed_items local
    fetched,         \* how the detail fetch of each item handled so far ended
    gr_result,       \* how the get_records call ended
    params,          \* get_records: the params argument
    call,            \* the running get_record, get_sublist or execute_suiteql call
    built,           \* the request last built: its URL, its query, the parameters signed for it and its header
    nonces,          \* the oauth_nonce values that the upstream requests sent so far carried
    tasks,           \* the request handler each task of the event loop runs, and where it is
    running,         \* the task that holds the event loop, or NoTask
    sets_made,       \* the <<key, value>> pairs that handlers have passed to cache.set
    arrived,         \* number of HTTP requests that have arrived
    settings,        \* the NetSuite credentials of the process's settings
    serving,         \* the request that is served when requests come one at a time, and where its handler is
    stored_by,       \* for each cache key set by a request served so, the request that set it last, and the value
    cache,           \* CacheManager.cache: the TTLCache's entries, least recently used first
    now,             \* the clock the TTLCache reads, in seconds
    hits,            \* CacheManager.hits
    misses,          \* CacheManager.misses
    gets,            \* number of CacheManager.get calls made so far
    used,            \* the stored keys in the order of their last set or successful read
    last_op          \* the last CacheManager call: its arguments, what it returned, the counters before it

(***************************************************************************)
(* Bounds of the model.                                                    *)
(***************************************************************************)
MaxRetries == 4

(***************************************************************************)
(* Python values.                                                          *)
(***************************************************************************)
PyNone == [none |-> TRUE]

\* A response body text, by what the code can observe of it: whether it parses
\* as JSON, what it parses to, and whether it contains "connection"
\* (case-insensitively). name tells the texts apart.
Text(name, json, doc, conn) ==
    [name |-> name, json |-> json, doc |-> doc, conn |-> conn]

\* A reason phrase, by whether it contains "connection".
Reason(conn) == [conn |-> conn]

\* What the transport does with one attempt.
Response(status, reason, text) ==
    [kind |-> "response", status |-> status, reason |-> reason, text |-> text]
Timeout == [kind |-> "timeout"]
TransportFailure(conn) == [kind |-> "transport", conn |-> conn]

\* Exceptions.
TimeoutException == [type |-> "httpx.TimeoutException"]
TransportError(conn) == [type |-> "httpx.TransportError", conn |-> conn]
JSONDecodeError == [type |-> "json.JSONDecodeError"]
ApiError(r) ==
    [type |-> "Exception", msg |-> "NetSuite API error",
     status |-> r.status, reason |-> r.reason, text |-> r.text]
\* Exception("Request timeout after multiple retries"): the message, and the
\* words it is made of.
RetriesExhausted ==
    [type |-> "Exception", msg |-> "Request timeout after multiple retries",
     words |-> <<"Request", "timeout", "after", "multiple", "retries">>]

\* "connection" in str(e).lower()
MentionsConnection(e) ==
    IF e.type = "httpx.TransportError" THEN e.conn
    ELSE IF e.type = "Exception" /\ e.msg = "NetSuite API error"
         THEN e.reason.conn \/ e.text.conn
    ELSE FALSE

\* What one pass through the loop body does.
Return(v) == [act |-> "return", value |-> v]
Raise(e) == [act |-> "raise", error |-> e]
Sleep(d, cause) == [act |-> "sleep", delay |-> d, cause |-> cause]

\* A changed Backoff: a linear delay.
Backoff_linear(n) == 2 * n

\* delay = 2 ** attempt
Backoff(n) == 2 ^ n

\* A changed on_response: a 429 is not retried.
on_response_without_retry(n, budget, r) ==
    IF r.status >= 400
    THEN Raise(ApiError(r))
    ELSE IF r.text.json
    THEN Return(r.text.doc)
    ELSE Raise(JSONDecodeError)

\* A changed on_response: a 429 is waited on even on the final attempt.
on_response_waits_on_final(n, budget, r) ==
    IF r.status = 429 /\ n <= budget
    THEN Sleep(Backoff(n), "rate_limit")
    ELSE IF r.status >= 400
    THEN Raise(ApiError(r))
    ELSE IF r.text.json
    THEN Return(r.text.doc)
    ELSE Raise(JSONDecodeError)

\* The body of the async-with block once the response is there.
on_response(n, budget, r) ==
    IF r.status = 429 /\ n < budget
    THEN Sleep(Backoff(n), "rate_limit")
    ELSE IF r.status >= 400
    THEN Raise(ApiError(r))
    ELSE IF r.text.json
    THEN Return(r.text.doc)
    ELSE Raise(JSONDecodeError)

\* A changed on_timeout: the final timeout is waited on too.
on_timeout_waits_on_final(n, budget) ==
    IF n <= budget
    THEN Sleep(Backoff(n), "timeout")
    ELSE Raise(RetriesExhausted)

\* except httpx.TimeoutException
on_timeout(n, budget) ==
    IF n < budget
    THEN Sleep(Backoff(n), "timeout")
    ELSE Raise(RetriesExhausted)

\* A changed on_exception: every failure is retried while attempts remain.
on_exception_retries_all(n, budget, e) ==
    IF n = budget
    THEN Raise(e)
    ELSE Sleep(Backoff(n), "connection")

\* A changed on_exception: a connection failure of the final attempt is
\* waited on too.
on_exception_waits_on_final(n, budget, e) ==
    IF MentionsConnection(e) /\ n <= budget
    THEN Sleep(Backoff(n), "connection")
    ELSE Raise(e)

\* except Exception as e
on_exception(n, budget, e) ==
    IF n = budget
    THEN Raise(e)
    ELSE IF MentionsConnection(e)
    THEN Sleep(Backoff(n), "connection")
    ELSE Raise(e)

\* The try block: the request, then the handling of its response.
try_block(n, budget, o) ==
    IF o.kind = "timeout" THEN Raise(TimeoutException)
    ELSE IF o.kind = "transport" THEN Raise(TransportError(o.conn))
    ELSE on_response(n, budget, o)

\* One iteration of the loop: the try block and the except clause that
\* catches what it raises.
iteration(n, budget, o) ==
    LET t == try_block(n, budget, o) IN
    IF t.act # "raise" THEN t
    ELSE IF t.error.type = "httpx.TimeoutException" THEN on_timeout(n, budget)
    ELSE on_exception(n, budget, t.error)

(***************************************************************************)
(* The transport's answers.                                                *)
(***************************************************************************)
DocA == [id |-> "1", form |-> "detail"]
DocB == [id |-> "2", form |-> "detail"]
JsonA == Text("json A", TRUE, DocA, FALSE)
JsonB == Text("json B", TRUE, DocB, FALSE)
JsonConn == Text("json mentioning a connection", TRUE, DocA, TRUE)
NotJson == Text("not json", FALSE, PyNone, FALSE)
PlainError == Text("error text", FALSE, PyNone, FALSE)
ConnError == Text("upstream connection reset", FALSE, PyNone, TRUE)

ErrorStatuses == {404, 429, 500}

Outcomes ==
    {Response(200, Reason(FALSE), t) : t \in {JsonA, JsonB, JsonConn, NotJson}}
    \cup {Response(204, Reason(FALSE), NotJson)}
    \cup {Response(s, Reason(FALSE), t) : s \in ErrorStatuses, t \in {PlainError, ConnError}}
    \cup {Response(s, Reason(TRUE), PlainError) : s \in ErrorStatuses}
    \cup {Timeout, TransportFailure(TRUE), TransportFailure(FALSE)}

(***************************************************************************)
(* The client.                                                             *)
(***************************************************************************)
CredentialFields ==
    {"realm", "consumer_key", "consumer_secret", "token_key", "token_secret"}

\* None, as the value of a credential argument or of an item's id.
NoneArg == "<None>"

\* A changed Truthy: only None is false (is not None).
Truthy_unless_none(v) == v # NoneArg

\* Python's truth value of a credential argument or of an item's id: None
\* and "" are false.
Truthy(v) == v \notin {NoneArg, ""}

\* A changed all_credentials: token_secret is not looked at.
all_credentials_but_token_secret(args) ==
    \A f \in CredentialFields \ {"token_secret"} : Truthy(args[f])

\* all([realm, consumer_key, consumer_secret, token_key, token_secret])
all_credentials(args) == \A f \in CredentialFields : Truthy(args[f])

NoClient == [state |-> "none"]
Constructed(args) == [state |-> "ready", args |-> args]
ValueError(args) == [state |-> "ValueError", args |-> args]
ReadyClient == Constructed([f \in CredentialFields |-> "x"])

\* NetSuiteClient.__init__
init_client(args) ==
    IF ~all_credentials(args) THEN ValueError(args) ELSE Constructed(args)

(***************************************************************************)
(* _make_request.                                                          *)
(***************************************************************************)
mr_vars == <<mr_pc, target, retries, attempt, delay, attempts, waits, mr_result>>

gr_vars ==
    <<gr_pc, expand_details, data, items, idx, detailed_items, fetched, gr_result>>

cache_vars == <<cache, now, hits, misses, gets, used, last_op>>

call_vars == <<params, call, built, nonces>>

serve_vars == <<settings, serving, stored_by>>

handler_vars == <<tasks, running, sets_made, arrived, serve_vars>>

client_vars ==
    <<client, signatures, requests, inflight, mr_vars, gr_vars, call_vars>>

vars == <<client_vars, cache_vars, handler_vars>>

\* What a _make_request call is made for.
Direct == [kind |-> "direct"]
ListTarget == [kind |-> "list"]
DetailTarget(i) == [kind |-> "detail", idx |-> i]

\* No call has ended.
NoResult == [act |-> "none"]

\* No get_record, get_sublist or execute_suiteql call is running.
NoCall == [op |-> "none"]

\* No request has been built.
NoRequest == [op |-> "none"]

\* The call: for attempt in range(1, retries + 1). With retries = 0 the loop
\* body never runs and the function falls off its end.
make_request(tgt, budget) ==
    /\ mr_pc = "idle"
    /\ target' = tgt
    /\ retries' = budget
    /\ attempts' = <<>>
    /\ waits' = <<>>
    /\ delay' = 0
    /\ IF budget >= 1
       THEN /\ attempt' = 1
            /\ mr_pc' = "send"
            /\ mr_result' = NoResult
       ELSE /\ attempt' = 0
            /\ mr_pc' = "done"
            /\ mr_result' = Return(PyNone)

\* The value of the entry name of an Authorization header.
header_value(header, name) ==
    header[CHOOSE i \in 1..Len(header) : header[i][1] = name][2]

\* The oauth_nonce that a request carries in its headers; a request without
\* headers carries none.
carried_nonce(r) ==
    IF r = NoRequest THEN {} ELSE {header_value(r.Authorization, "oauth_nonce")}

\* client.request(method, url, headers=headers, json=json_data): the request
\* goes out with the headers the caller computed before the call.
send ==
    /\ mr_pc = "send"
    /\ mr_pc' = "await"
    /\ requests' = requests + 1
    /\ inflight' = inflight \cup {target}
    /\ nonces' = nonces \cup carried_nonce(built)
    /\ UNCHANGED <<client, signatures, target, retries, attempt, delay,
                   attempts, waits, mr_result, gr_vars, params, call, built,
                   cache_vars, handler_vars>>

\* The attempt ends with o, and the loop body runs to its return, its raise
\* or its asyncio.sleep.
receive(o) ==
    /\ mr_pc = "await"
    /\ inflight' = inflight \ {target}
    /\ attempts' = Append(attempts, o)
    /\ LET s == iteration(attempt, retries, o) IN
       IF s.act = "sleep"
       THEN /\ mr_pc' = "sleep"
            /\ delay' = s.delay
            /\ waits' = Append(waits, [after |-> attempt, delay |-> s.delay,
                                       cause |-> s.cause])
            /\ UNCHANGED mr_result
       ELSE /\ mr_pc' = "done"
            /\ mr_result' = s
            /\ UNCHANGED <<delay, waits>>
    /\ UNCHANGED <<client, signatures, requests, target, retries, attempt,
                   gr_vars, call_vars, cache_vars, handler_vars>>

\* asyncio.sleep returns: the next iteration, or the end of the loop.
wake ==
    /\ mr_pc = "sleep"
    /\ IF attempt < retries
       THEN /\ attempt' = attempt + 1
            /\ mr_pc' = "send"
            /\ UNCHANGED mr_result
       ELSE /\ mr_pc' = "done"
            /\ mr_result' = Return(PyNone)
            /\ UNCHANGED attempt
    /\ UNCHANGED <<client, signatures, requests, inflight, target, retries,
                   delay, attempts, waits, gr_vars, call_vars, cache_vars, handler_vars>>

(***************************************************************************)
(* SpecExec: one _make_request call.                                       *)
(***************************************************************************)
InitCounters ==
    /\ signatures = 0
    /\ requests = 0
    /\ inflight = {}

InitMakeRequest ==
    /\ mr_pc = "idle"
    /\ target = Direct
    /\ retries = 0
    /\ attempt = 0
    /\ delay = 0
    /\ attempts = <<>>
    /\ waits = <<>>
    /\ mr_result = NoResult

InitGetRecords ==
    /\ gr_pc = "idle"
    /\ expand_details = FALSE
    /\ data = PyNone
    /\ items = <<>>
    /\ idx = 0
    /\ detailed_items = <<>>
    /\ fetched = <<>>
    /\ gr_result = NoResult
    /\ params = <<>>
    /\ call = NoCall
    /\ built = NoRequest
    /\ nonces = {}

\* No HTTP request has arrived.
Handlers == {"task 1", "task 2"}
NoTask == "no task"
Idle == [pc |-> "idle"]

InitHandlers ==
    /\ tasks = [h \in Handlers |-> Idle]
    /\ running = NoTask
    /\ sets_made = {}
    /\ arrived = 0
    /\ settings = ReadyClient.args
    /\ serving = Idle
    /\ stored_by = {}

\* CacheManager.__init__
InitCache ==
    /\ cache = <<>>
    /\ now = 0
    /\ hits = 0
    /\ misses = 0
    /\ gets = 0
    /\ used = <<>>
    /\ last_op = [op |-> "none"]

InitExec ==
    /\ client = ReadyClient
    /\ InitCounters
    /\ InitMakeRequest
    /\ InitGetRecords
    /\ InitHandlers
    /\ InitCache

ExecCall ==
    /\ \E budget \in 0..MaxRetries : make_request(Direct, budget)
    /\ UNCHANGED <<client, signatures, requests, inflight, gr_vars, call_vars, cache_vars, handler_vars>>

ExecReceive == \E o \in Outcomes : receive(o)

NextExec == ExecCall \/ send \/ ExecReceive \/ wake

SpecExec == InitExec /\ [][NextExec]_vars

\* SpecExecFair: the same call when the event loop runs the coroutine
\* whenever it can run, every attempt ends (httpx.AsyncClient(timeout=30.0))
\* and every asyncio.sleep returns.
SpecExecFair ==
    /\ InitExec
    /\ [][NextExec]_vars
    /\ WF_vars(send)
    /\ WF_vars(ExecReceive)
    /\ WF_vars(wake)

(***************************************************************************)
(* Parameters, URLs and the parameters that are signed. A text is a        *)
(* sequence of tokens; a token is a run of letters and digits, or one      *)
(* character that a query string gives a meaning to. A dict is a sequence  *)
(* of <<name, value>> pairs with distinct names, in insertion order.       *)
(***************************************************************************)
PyInt(n) == [int |-> n]
PyStr(text) == [str |-> text]

\* str(v) of an int or a str.
str(v) == IF "int" \in DOMAIN v THEN <<ToString(v.int)>> ELSE v.str

dict_keys(d) == {d[i][1] : i \in 1..Len(d)}

\* d.get(k, default)
dict_get(d, k, default) ==
    IF k \in dict_keys(d)
    THEN d[CHOOSE i \in 1..Len(d) : d[i][1] = k][2]
    ELSE default

\* d[k] = v
dict_set(d, k, v) ==
    IF k \in dict_keys(d)
    THEN [i \in 1..Len(d) |-> IF d[i][1] = k THEN <<k, v>> ELSE d[i]]
    ELSE Append(d, <<k, v>>)

\* urllib.parse.quote_plus, token by token.
quote_plus_token(tok) ==
    CASE tok = " " -> "+"
      [] tok = "&" -> "%26"
      [] tok = "=" -> "%3D"
      [] tok = "+" -> "%2B"
      [] OTHER -> tok

quote_plus(text) == [i \in 1..Len(text) |-> quote_plus_token(text[i])]

\* What the receiver of a query string reads a token as.
unquote_plus_token(tok) ==
    CASE tok = "+" -> " "
      [] tok = "%26" -> "&"
      [] tok = "%3D" -> "="
      [] tok = "%2B" -> "+"
      [] OTHER -> tok

unquote_plus(text) == [i \in 1..Len(text) |-> unquote_plus_token(text[i])]

\* urllib.parse.urlencode of a dict of str values.
RECURSIVE urlencode(_)
urlencode(q) ==
    IF Len(q) = 0
    THEN <<>>
    ELSE <<q[1][1], "=">> \o quote_plus(q[1][2])
         \o (IF Len(q) > 1 THEN <<"&">> \o urlencode(Tail(q)) ELSE <<>>)

\* The position of the first token tok in text, or 0.
find(text, tok) ==
    IF \E i \in 1..Len(text) : text[i] = tok
    THEN CHOOSE i \in 1..Len(text) :
            text[i] = tok /\ \A j \in 1..(i - 1) : text[j] # tok
    ELSE 0

\* The pieces of text between the tokens sep.
RECURSIVE split(_, _)
split(text, sep) ==
    IF find(text, sep) = 0
    THEN <<text>>
    ELSE <<SubSeq(text, 1, find(text, sep) - 1)>>
         \o split(SubSeq(text, find(text, sep) + 1, Len(text)), sep)

\* The name/value parameters a query string carries, as its receiver reads
\* them: pieces between "&", each cut at its first "=" and unquoted.
url_params(query) ==
    LET pieces == split(query, "&")
        cut(piece) == find(piece, "=")
    IN {<<unquote_plus(SubSeq(pieces[i], 1, cut(pieces[i]) - 1)),
          unquote_plus(SubSeq(pieces[i], cut(pieces[i]) + 1, Len(pieces[i])))>> :
            i \in {j \in 1..Len(pieces) : cut(pieces[j]) # 0}}

\* The OAuth protocol parameters of the n-th signature of client c. The
\* timestamp is the clock's second; secrets.token_hex(16) is a value that no
\* earlier signature drew.
oauth_params(c, n) ==
    <<<<"oauth_consumer_key", <<c.args.consumer_key>>>>,
      <<"oauth_token", <<c.args.token_key>>>>,
      <<"oauth_signature_method", <<"HMAC-SHA256">>>>,
      <<"oauth_timestamp", <<"now">>>>,
      <<"oauth_nonce", <<ToString(n)>>>>,
      <<"oauth_version", <<"1.0">>>>>>

OAuthNames == dict_keys(oauth_params(ReadyClient, 0))

\* A changed dict_merge: a name that d already has keeps d's value.
RECURSIVE dict_merge_keeping_first(_, _)
dict_merge_keeping_first(d, e) ==
    IF Len(e) = 0
    THEN d
    ELSE dict_merge_keeping_first(
             IF e[1][1] \in dict_keys(d) THEN d ELSE Append(d, e[1]), Tail(e))

\* {**d, **e}
RECURSIVE dict_merge(_, _)
dict_merge(d, e) ==
    IF Len(e) = 0
    THEN d
    ELSE dict_merge(dict_set(d, e[1][1], e[1][2]), Tail(e))

\* _get_oauth_headers: the parameters that are signed.
all_params(c, request_params, n) == dict_merge(request_params, oauth_params(c, n))

(***************************************************************************)
(* OAuth 1.0a signing.                                                     *)
(***************************************************************************)
\* A changed quote_token: the escapes of quote_plus, a space becomes "+".
quote_token_plus(tok) ==
    CASE tok = " " -> "+"
      [] tok = "&" -> "%26"
      [] tok = "=" -> "%3D"
      [] tok = "+" -> "%2B"
      [] tok = ":" -> "%3A"
      [] tok = "/" -> "%2F"
      [] tok = "U+00E9" -> "%C3%A9"
      [] tok = "%20" -> "%2520"
      [] tok = "%26" -> "%2526"
      [] tok = "%3D" -> "%253D"
      [] tok = "%2B" -> "%252B"
      [] tok = "%3A" -> "%253A"
      [] tok = "%2F" -> "%252F"
      [] tok = "%C3%A9" -> "%25C3%25A9"
      [] tok = "%2520" -> "%252520"
      [] OTHER -> tok

\* urllib.parse.quote(text, safe=''), token by token: letters, digits and
\* "_.-~" stay, every other character becomes the %XX escape of its UTF-8
\* bytes. The token "U+00E9" is the one character e with an acute accent; a
\* token that starts with "%" is text that already holds escapes, and its
\* every "%" becomes "%25".
quote_token(tok) ==
    CASE tok = " " -> "%20"
      [] tok = "&" -> "%26"
      [] tok = "=" -> "%3D"
      [] tok = "+" -> "%2B"
      [] tok = ":" -> "%3A"
      [] tok = "/" -> "%2F"
      [] tok = "U+00E9" -> "%C3%A9"
      [] tok = "%20" -> "%2520"
      [] tok = "%26" -> "%2526"
      [] tok = "%3D" -> "%253D"
      [] tok = "%2B" -> "%252B"
      [] tok = "%3A" -> "%253A"
      [] tok = "%2F" -> "%252F"
      [] tok = "%C3%A9" -> "%25C3%25A9"
      [] tok = "%2520" -> "%252520"
      [] OTHER -> tok

quote(text) == [i \in 1..Len(text) |-> quote_token(text[i])]

\* The parameter names that occur, in the order Python's string comparison
\* gives them.
NameOrder ==
    <<"expandSubresources", "fields", "limit", "oauth_consumer_key",
      "oauth_nonce", "oauth_signature", "oauth_signature_method",
      "oauth_timestamp", "oauth_token", "oauth_version", "offset", "q">>

\* sorted(names)
sorted_names(names) ==
    LET present(name) == name \in names
    IN SelectSeq(NameOrder, present)

\* A changed sorted: the items stay in insertion order.
sorted_as_inserted(d) == d

\* sorted(d.items())
sorted(d) ==
    LET names == sorted_names(dict_keys(d))
    IN [i \in 1..Len(names) |-> <<names[i], dict_get(d, names[i], <<>>)>>]

\* "&".join of quote(k) + "=" + quote(v) over the pairs.
RECURSIVE param_string(_)
param_string(pairs) ==
    IF Len(pairs) = 0
    THEN <<>>
    ELSE quote(<<pairs[1][1]>>) \o <<"=">> \o quote(pairs[1][2])
         \o (IF Len(pairs) > 1 THEN <<"&">> \o param_string(Tail(pairs)) ELSE <<>>)

\* method.upper()
upper(method) ==
    CASE method = "get" -> "GET"
      [] method = "post" -> "POST"
      [] OTHER -> method

\* The signature base string of _generate_oauth_signature.
base_string(method, url, p) ==
    <<upper(method), "&">> \o quote(url) \o <<"&">>
    \o quote(param_string(sorted(p)))

signing_key(c) ==
    quote(<<c.args.consumer_secret>>) \o <<"&">> \o quote(<<c.args.token_secret>>)

\* _generate_oauth_signature: the base64 text of the HMAC-SHA256 digest,
\* one value for each key and message.
generate_oauth_signature(c, method, url, p) ==
    [key |-> signing_key(c), msg |-> base_string(method, url, p)]

\* A changed auth_header: every signed parameter is listed.
auth_header_of_all_params(c, request_params, n, signature) ==
    LET signed == all_params(c, request_params, n)
        names == sorted_names(dict_keys(signed) \cup {"oauth_signature"})
        value(name) ==
            IF name = "oauth_signature"
            THEN [quoted |-> signature]
            ELSE [text |-> quote(dict_get(signed, name, <<>>))]
    IN <<<<"realm", [text |-> <<c.args.realm>>]>>>>
       \o [i \in 1..Len(names) |-> <<names[i], value(names[i])>>]

\* The Authorization header, entry by entry: the realm as it is, then
\* oauth_params with oauth_signature added, sorted, every value quoted.
auth_header(c, request_params, n, signature) ==
    LET oauth == oauth_params(c, n)
        names == sorted_names(dict_keys(oauth) \cup {"oauth_signature"})
        value(name) ==
            IF name = "oauth_signature"
            THEN [quoted |-> signature]
            ELSE [text |-> quote(dict_get(oauth, name, <<>>))]
    IN <<<<"realm", [text |-> <<c.args.realm>>]>>>>
       \o [i \in 1..Len(names) |-> <<names[i], value(names[i])>>]

\* _get_oauth_headers as its n-th signature: what is signed, and the header.
get_oauth_headers(c, method, url, request_params, n) ==
    LET signed == all_params(c, request_params, n)
        signature == generate_oauth_signature(c, method, url, signed)
    IN [signed |-> signed,
        base_string |-> signature.msg,
        signature |-> signature,
        Authorization |-> auth_header(c, request_params, n, signature)]

\* self.base_url and self.suiteql_url
base_url(c) ==
    <<"https", ":", "/", "/", c.args.realm, ".suitetalk.api.netsuite.com", "/",
      "services", "/", "rest", "/", "record", "/", "v1">>

suiteql_url(c) ==
    <<"https", ":", "/", "/", c.args.realm, ".suitetalk.api.netsuite.com", "/",
      "services", "/", "rest", "/", "query", "/", "v1", "/", "suiteql">>

\* The entity and the record id of the calls.
Entity == "customer"
RecordId == "1"

\* {k: str(v) for k, v in params.items() if v is not None}
query_params(p) ==
    LET given(pair) == pair[2] # PyNone
        kept == SelectSeq(p, given)
    IN [i \in 1..Len(kept) |-> <<kept[i][1], str(kept[i][2])>>]

\* A request as a caller hands it to _make_request: the URL's query, and the
\* headers computed for it.
signed_request(c, op, method, url, query, request_params, n) ==
    LET headers == get_oauth_headers(c, method, url, request_params, n)
    IN [op |-> op,
        method |-> method,
        url |-> url,
        query |-> query,
        signed |-> headers.signed,
        Authorization |-> headers.Authorization]

\* The request get_records builds as its n-th signature: the query of the
\* URL, and what _get_oauth_headers signs.
records_request(p, n) ==
    signed_request(client, "get_records", "GET", base_url(client) \o <<"/", Entity>>,
            urlencode(query_params(p)), query_params(p), n)

\* The request execute_suiteql builds.
suiteql_request(limit, offset, n) ==
    signed_request(client, "execute_suiteql", "POST", suiteql_url(client),
            <<"limit", "=">> \o str(limit) \o <<"&", "offset", "=">> \o str(offset),
            <<<<"limit", str(limit)>>, <<"offset", str(offset)>>>>, n)

\* The request get_record and get_sublist build: no query.
plain_request(op, n) ==
    signed_request(client, op, "GET",
            base_url(client) \o <<"/", Entity, "/", RecordId>>
            \o (IF op = "get_sublist" THEN <<"/", "item">> ELSE <<>>),
            <<>>, <<>>, n)

(***************************************************************************)
(* get_records and get_record.                                             *)
(***************************************************************************)
DefaultRetries == 3
MaxItems == 3

CredentialValues == {"", NoneArg, "x"}

\* Summary items of a list response: two with an id, one without the key,
\* one whose id is the empty string.
Summary1 == [id |-> "1", form |-> "summary"]
Summary2 == [id |-> "2", form |-> "summary"]
SummaryNoId == [form |-> "summary"]
SummaryEmptyId == [id |-> "", form |-> "summary"]
SummaryItems == {Summary1, Summary2, SummaryNoId, SummaryEmptyId}

SeqsUpTo(S, n) == UNION {[1..k -> S] : k \in 0..n}

\* Parsed list responses: with an items list, and one without the key.
ListDocs ==
    {[items |-> its] : its \in SeqsUpTo(SummaryItems, MaxItems)}
    \cup {[count |-> 0]}

Ok(text) == Response(200, Reason(FALSE), text)

FetchFailures ==
    {Response(500, Reason(FALSE), PlainError),
     Response(429, Reason(FALSE), PlainError),
     Ok(NotJson),
     Timeout}

ListOutcomes ==
    {Ok(Text("list", TRUE, d, FALSE)) : d \in ListDocs} \cup FetchFailures

DetailOutcomes == {Ok(JsonA), Ok(JsonB)} \cup FetchFailures

\* data.get("items", [])
get_items(d) == IF "items" \in DOMAIN d THEN d.items ELSE <<>>

\* item.get("id")
get_id(item) == IF "id" \in DOMAIN item THEN item.id ELSE NoneArg

\* data.get(k, default)
doc_get(d, k, default) == IF k \in DOMAIN d THEN d[k] ELSE default

\* The dict get_records returns.
records_result(d, its) ==
    [entity |-> "customer",
     count |-> doc_get(d, "count", 0),
     hasMore |-> doc_get(d, "hasMore", FALSE),
     items |-> its,
     offset |-> dict_get(params, "offset", PyInt(0)),
     limit |-> dict_get(params, "limit", PyInt(1000)),
     totalResults |-> doc_get(d, "totalResults", doc_get(d, "count", 0))]

\* A changed suiteql_result: totalResults is always the count.
suiteql_result_counting(d, limit, offset) ==
    [count |-> doc_get(d, "count", 0),
     hasMore |-> doc_get(d, "hasMore", FALSE),
     items |-> doc_get(d, "items", <<>>),
     offset |-> offset,
     limit |-> limit,
     totalResults |-> doc_get(d, "count", 0)]

\* The dict execute_suiteql returns.
suiteql_result(d, limit, offset) ==
    [count |-> doc_get(d, "count", 0),
     hasMore |-> doc_get(d, "hasMore", FALSE),
     items |-> doc_get(d, "items", <<>>),
     offset |-> offset,
     limit |-> limit,
     totalResults |-> doc_get(d, "totalResults", doc_get(d, "count", 0))]

\* A changed awaited: a detail fetch is not waited for once its request is out.
awaited_or_detail_in_flight ==
    mr_pc = "done" \/ (target.kind = "detail" /\ mr_pc = "await")

\* The await of a _make_request call: the caller goes on once it has ended.
awaited == mr_pc = "done"

\* The frame of an ended _make_request call is dropped.
pop_make_request ==
    /\ mr_pc' = "idle"
    /\ mr_result' = NoResult
    /\ attempts' = <<>>
    /\ waits' = <<>>
    /\ delay' = 0
    /\ attempt' = 0
    /\ UNCHANGED <<target, retries>>

\* A changed expand_item: an item whose detail fetch failed is left out.
expand_item_drops_failed(detailed, item, r) ==
    IF r.act = "return"
    THEN Append(detailed, r.value)
    ELSE detailed

\* One pass of the for loop once the detail fetch r of item has ended: the
\* full record is appended, or (except Exception) the summary item.
expand_item(detailed, item, r) ==
    IF r.act = "return"
    THEN Append(detailed, r.value)
    ELSE Append(detailed, item)

\* NetSuiteClient(...)
construct ==
    /\ client = NoClient
    /\ \E args \in [CredentialFields -> CredentialValues] :
          client' = init_client(args)
    /\ UNCHANGED <<signatures, requests, inflight, mr_vars, gr_vars, call_vars, cache_vars, handler_vars>>

\* get_records up to its list request: the headers are signed and the
\* request is handed to _make_request.
get_records_call(expands, callers) ==
    /\ client.state = "ready"
    /\ gr_pc = "idle"
    /\ call = NoCall
    /\ \E expand \in expands, p \in callers :
          /\ expand_details' = expand
          /\ params' = p
          /\ built' = records_request(p, signatures + 1)
    /\ signatures' = signatures + 1
    /\ make_request(ListTarget, DefaultRetries)
    /\ gr_pc' = "list"
    /\ UNCHANGED <<client, requests, inflight, data, items, idx,
                   detailed_items, fetched, gr_result, call, nonces, cache_vars, handler_vars>>

\* The params every handler of main.py passes when the caller gives none.
MainParams == <<<<"limit", PyInt(1000)>>, <<"offset", PyInt(0)>>>>

get_records == get_records_call(BOOLEAN, {MainParams})

\* A changed list_done: a failed list request is answered like a failed
\* sublist request, with an empty list.
list_done_defaulting ==
    /\ gr_pc = "list"
    /\ awaited
    /\ LET d == IF mr_result.act = "raise" THEN [items |-> <<>>] ELSE mr_result.value
       IN /\ data' = d
          /\ items' = get_items(d)
          /\ IF expand_details /\ get_items(d) # <<>>
             THEN /\ gr_pc' = "loop"
                  /\ idx' = 1
                  /\ detailed_items' = <<>>
                  /\ UNCHANGED gr_result
             ELSE /\ gr_pc' = "done"
                  /\ gr_result' = Return(records_result(d, get_items(d)))
                  /\ UNCHANGED <<idx, detailed_items>>
    /\ pop_make_request
    /\ UNCHANGED <<client, signatures, requests, inflight, expand_details,
                   fetched, call_vars, cache_vars, handler_vars>>

\* The list request has ended: its failure is the call's, or the loop starts,
\* or (no expansion, no items) the call returns.
list_done ==
    /\ gr_pc = "list"
    /\ awaited
    /\ IF mr_result.act = "raise"
       THEN /\ gr_pc' = "done"
            /\ gr_result' = mr_result
            /\ UNCHANGED <<data, items, idx, detailed_items>>
       ELSE /\ data' = mr_result.value
            /\ items' = get_items(mr_result.value)
            /\ IF expand_details /\ get_items(mr_result.value) # <<>>
               THEN /\ gr_pc' = "loop"
                    /\ idx' = 1
                    /\ detailed_items' = <<>>
                    /\ UNCHANGED gr_result
               ELSE /\ gr_pc' = "done"
                    /\ gr_result' = Return(records_result(mr_result.value,
                                               get_items(mr_result.value)))
                    /\ UNCHANGED <<idx, detailed_items>>
    /\ pop_make_request
    /\ UNCHANGED <<client, signatures, requests, inflight, expand_details,
                   fetched, call_vars, cache_vars, handler_vars>>

\* The loop reaches an item with an id: get_record signs its headers and
\* hands the request to _make_request.
fetch_detail ==
    /\ gr_pc = "loop"
    /\ idx <= Len(items)
    /\ Truthy(get_id(items[idx]))
    /\ signatures' = signatures + 1
    /\ built' = plain_request("get_record", signatures + 1)
    /\ make_request(DetailTarget(idx), DefaultRetries)
    /\ gr_pc' = "detail"
    /\ UNCHANGED <<client, requests, inflight, expand_details, data, items, idx,
                   detailed_items, fetched, gr_result, params, call, nonces,
                   cache_vars, handler_vars>>

\* The loop reaches an item without an id: it is kept as it is.
keep_item ==
    /\ gr_pc = "loop"
    /\ idx <= Len(items)
    /\ ~Truthy(get_id(items[idx]))
    /\ detailed_items' = Append(detailed_items, items[idx])
    /\ fetched' = Append(fetched, [status |-> "not fetched"])
    /\ idx' = idx + 1
    /\ UNCHANGED <<client, signatures, requests, inflight, mr_vars, gr_pc,
                   expand_details, data, items, gr_result, call_vars, cache_vars, handler_vars>>

\* The detail fetch of items[idx] has ended.
detail_done ==
    /\ gr_pc = "detail"
    /\ awaited
    /\ detailed_items' = expand_item(detailed_items, items[idx], mr_result)
    /\ fetched' = Append(fetched,
                         IF mr_result.act = "return"
                         THEN [status |-> "fetched", value |-> mr_result.value]
                         ELSE [status |-> "failed"])
    /\ idx' = idx + 1
    /\ gr_pc' = "loop"
    /\ pop_make_request
    /\ UNCHANGED <<client, signatures, requests, inflight, expand_details, data,
                   items, gr_result, call_vars, cache_vars, handler_vars>>

\* The loop is over: items = detailed_items, and the call returns.
loop_done ==
    /\ gr_pc = "loop"
    /\ idx > Len(items)
    /\ items' = detailed_items
    /\ gr_pc' = "done"
    /\ gr_result' = Return(records_result(data, detailed_items))
    /\ UNCHANGED <<client, signatures, requests, inflight, mr_vars,
                   expand_details, data, idx, detailed_items, fetched, call_vars, cache_vars, handler_vars>>

FetchReceive ==
    \E o \in (IF target = ListTarget THEN ListOutcomes ELSE DetailOutcomes) :
        receive(o)

(***************************************************************************)
(* Spec: a client is constructed and get_records is called on it.          *)
(***************************************************************************)
Init ==
    /\ client = NoClient
    /\ InitCounters
    /\ InitMakeRequest
    /\ InitGetRecords
    /\ InitHandlers
    /\ InitCache

Next ==
    \/ construct
    \/ get_records
    \/ send
    \/ FetchReceive
    \/ wake
    \/ list_done
    \/ fetch_detail
    \/ keep_item
    \/ detail_done
    \/ loop_done

Spec == Init /\ [][Next]_vars

(***************************************************************************)
(* get_record, get_sublist, execute_suiteql, and get_records without       *)
(* expansion: one request each.                                            *)
(***************************************************************************)
RecordTarget == [kind |-> "record"]
SublistTarget == [kind |-> "sublist"]
QueryTarget == [kind |-> "query"]

\* Parsed responses to a list request or a query.
QueryDocs ==
    {[items |-> <<Summary1, Summary2>>, count |-> 2, hasMore |-> FALSE],
     [items |-> <<Summary2, Summary1>>, count |-> 2, hasMore |-> TRUE,
      totalResults |-> 7],
     [items |-> <<Summary1>>],
     [count |-> 0, hasMore |-> FALSE, totalResults |-> 0]}

QueryOutcomes ==
    {Ok(Text("list", TRUE, d, FALSE)) : d \in QueryDocs} \cup FetchFailures

RecordOutcomes ==
    DetailOutcomes \cup {TransportFailure(FALSE), TransportFailure(TRUE)}

\* The params argument of get_records: none, what main.py passes by default,
\* a page, a page with a filter, and a dict holding a None.
CallerParams ==
    {<<>>,
     MainParams,
     <<<<"limit", PyInt(2)>>, <<"offset", PyInt(0)>>>>,
     <<<<"limit", PyInt(2)>>, <<"offset", PyInt(0)>>,
       <<"q", PyStr(<<"a", " ", "b", "&", "c", "=", "d">>)>>>>,
     <<<<"limit", PyInt(2)>>, <<"offset", PyInt(5)>>, <<"q", PyNone>>,
       <<"fields", PyStr(<<"id">>)>>>>}

\* The limit and offset arguments of execute_suiteql: the typed query
\* parameters of main.py, and what a JSON request body holds under "limit".
QueryLimits ==
    {PyInt(2), PyInt(1000), PyStr(<<"5", "&", "offset", "=", "9">>)}

QueryOffsets == {PyInt(0), PyInt(5)}

\* A changed record_result: a failure becomes an empty record.
record_result_defaulting(r) ==
    IF r.act = "raise" THEN Return([id |-> NoneArg]) ELSE r

\* get_record: return await self._make_request(...)
record_result(r) == r

\* A changed sublist_result: the failure reaches the caller.
sublist_result_reraising(r) == r

\* get_sublist: the try returns the result; except Exception returns
\* {"items": []}.
sublist_result(r) ==
    IF r.act = "raise" THEN Return([items |-> <<>>]) ELSE r

\* execute_suiteql after its request: the failure, or the dict built from
\* the response.
query_result(r, limit, offset) ==
    IF r.act = "raise"
    THEN r
    ELSE Return(suiteql_result(r.value, limit, offset))

get_record ==
    /\ client.state = "ready"
    /\ gr_pc = "idle"
    /\ call = NoCall
    /\ signatures' = signatures + 1
    /\ built' = plain_request("get_record", signatures + 1)
    /\ make_request(RecordTarget, DefaultRetries)
    /\ call' = [op |-> "get_record", pc |-> "await"]
    /\ UNCHANGED <<client, requests, inflight, gr_vars, params, nonces, cache_vars, handler_vars>>

get_record_done ==
    /\ call.op = "get_record"
    /\ call.pc = "await"
    /\ awaited
    /\ call' = [op |-> "get_record", pc |-> "done", answers |-> attempts,
                result |-> record_result(mr_result)]
    /\ pop_make_request
    /\ UNCHANGED <<client, signatures, requests, inflight, gr_vars, params,
                   built, nonces, cache_vars, handler_vars>>

get_sublist ==
    /\ client.state = "ready"
    /\ gr_pc = "idle"
    /\ call = NoCall
    /\ signatures' = signatures + 1
    /\ built' = plain_request("get_sublist", signatures + 1)
    /\ make_request(SublistTarget, DefaultRetries)
    /\ call' = [op |-> "get_sublist", pc |-> "await"]
    /\ UNCHANGED <<client, requests, inflight, gr_vars, params, nonces, cache_vars, handler_vars>>

get_sublist_done ==
    /\ call.op = "get_sublist"
    /\ call.pc = "await"
    /\ awaited
    /\ call' = [op |-> "get_sublist", pc |-> "done", answers |-> attempts,
                result |-> sublist_result(mr_result)]
    /\ pop_make_request
    /\ UNCHANGED <<client, signatures, requests, inflight, gr_vars, params,
                   built, nonces, cache_vars, handler_vars>>

execute_suiteql ==
    /\ client.state = "ready"
    /\ gr_pc = "idle"
    /\ call = NoCall
    /\ \E limit \in QueryLimits, offset \in QueryOffsets :
          /\ built' = suiteql_request(limit, offset, signatures + 1)
          /\ call' = [op |-> "execute_suiteql", pc |-> "await",
                      limit |-> limit, offset |-> offset]
    /\ signatures' = signatures + 1
    /\ make_request(QueryTarget, DefaultRetries)
    /\ UNCHANGED <<client, requests, inflight, gr_vars, params, nonces, cache_vars, handler_vars>>

execute_suiteql_done ==
    /\ call.op = "execute_suiteql"
    /\ call.pc = "await"
    /\ awaited
    /\ call' = [op |-> "execute_suiteql", pc |-> "done",
                limit |-> call.limit, offset |-> call.offset,
                answers |-> attempts,
                result |-> query_result(mr_result, call.limit, call.offset)]
    /\ pop_make_request
    /\ UNCHANGED <<client, signatures, requests, inflight, gr_vars, params,
                   built, nonces, cache_vars, handler_vars>>

get_records_unexpanded == get_records_call({FALSE}, CallerParams)

CallReceive ==
    \E o \in (IF target \in {ListTarget, QueryTarget}
              THEN QueryOutcomes
              ELSE RecordOutcomes) :
        receive(o)

(***************************************************************************)
(* SpecCalls: one call on a constructed client.                            *)
(***************************************************************************)
InitCalls ==
    /\ client = ReadyClient
    /\ InitCounters
    /\ InitMakeRequest
    /\ InitGetRecords
    /\ InitHandlers
    /\ InitCache

NextCalls ==
    \/ get_record
    \/ get_record_done
    \/ get_sublist
    \/ get_sublist_done
    \/ execute_suiteql
    \/ execute_suiteql_done
    \/ get_records_unexpanded
    \/ list_done
    \/ send
    \/ CallReceive
    \/ wake

SpecCalls == InitCalls /\ [][NextCalls]_vars

(***************************************************************************)
(* CacheManager, over a cachetools TTLCache(maxsize, ttl). The TTLCache    *)
(* keeps its entries in order of last use (set or successful read); an     *)
(* entry set at time t expires once the clock reaches t + ttl, and stays   *)
(* stored, unreadable, until an operation that purges expired entries.     *)
(***************************************************************************)
DefaultTtl == 2
MaxClock == 2
MaxGets == 2

Keys == {"k1", "k2", "k3"}
\* The maxsize of the TTLCache: one entry fewer than there are keys, so that
\* a set can find the cache full.
MaxSize == Cardinality(Keys) - 1
Values == {[v |-> 1], [v |-> 2]}
\* The ttl argument of set: absent (None), or a number of seconds.
NoTtl == 0
TtlArgs == {NoTtl, 1}

Entry(k, v, expires) == [key |-> k, value |-> v, expires |-> expires]

\* The stored entry of key k (expired or not), as a set of at most one.
stored(c, k) == {c[i] : i \in {j \in 1..Len(c) : c[j].key = k}}

without(c, k) == LET other(e) == e.key # k IN SelectSeq(c, other)

\* TTLCache.__contains__: stored and not expired.
ttl_contains(c, k, t) == \E e \in stored(c, k) : t < e.expires

\* TTLCache.expire: the expired entries are removed.
ttl_expire(c, t) == LET live(e) == t < e.expires IN SelectSeq(c, live)

\* A changed ttl_get: an expired entry is still read.
ttl_get_ignoring_expiry(c, k, t) ==
    IF stored(c, k) # {}
    THEN (CHOOSE e \in stored(c, k) : TRUE).value
    ELSE PyNone

\* TTLCache.get(key): the value of an unexpired entry, else None.
ttl_get(c, k, t) ==
    IF ttl_contains(c, k, t)
    THEN (CHOOSE e \in stored(c, k) : TRUE).value
    ELSE PyNone

\* A changed ttl_touch: a read leaves the order of the entries alone.
ttl_touch_not_moving(c, k, t) == c

\* The read of an unexpired entry makes it the most recently used.
ttl_touch(c, k, t) ==
    IF ttl_contains(c, k, t)
    THEN Append(without(c, k), CHOOSE e \in stored(c, k) : TRUE)
    ELSE c

\* A changed ttl_setitem: a key that is already stored keeps its entry.
ttl_setitem_keeping_stored(c, k, v, t) ==
    LET purged == ttl_expire(c, t)
        room == IF stored(purged, k) = {} /\ Len(purged) >= MaxSize
                THEN Tail(purged)
                ELSE purged
    IN IF stored(purged, k) # {}
       THEN purged
       ELSE Append(room, Entry(k, v, t + DefaultTtl))

\* A changed ttl_setitem: the entry lives one second longer than ttl.
ttl_setitem_expiring_late(c, k, v, t) ==
    LET purged == ttl_expire(c, t)
        room == IF stored(purged, k) = {} /\ Len(purged) >= MaxSize
                THEN Tail(purged)
                ELSE purged
    IN Append(without(room, k), Entry(k, v, t + DefaultTtl + 1))

\* TTLCache.__setitem__: expired entries are purged; a new key in a full
\* cache evicts the least recently used entry; the entry becomes the most
\* recently used and expires ttl seconds from now.
ttl_setitem(c, k, v, t) ==
    LET purged == ttl_expire(c, t)
        room == IF stored(purged, k) = {} /\ Len(purged) >= MaxSize
                THEN Tail(purged)
                ELSE purged
    IN Append(without(room, k), Entry(k, v, t + DefaultTtl))

\* A changed set_item: a ttl argument, when given, is the entry's lifetime.
set_item_honouring_ttl(c, k, v, ttl, t) ==
    IF ttl # NoTtl
    THEN Append(without(ttl_setitem(c, k, v, t), k), Entry(k, v, t + ttl))
    ELSE ttl_setitem(c, k, v, t)

\* The body of CacheManager.set: "if ttl: pass", then self.cache[key] = value.
\* The entry is stored under the cache's own ttl, whatever the ttl argument.
set_item(c, k, v, ttl, t) == ttl_setitem(c, k, v, t)

\* What a read of key k finds at time t: no entry, an expired one, a live one.
lookup(c, k, t) ==
    IF stored(c, k) = {} THEN "absent"
    ELSE IF \A e \in stored(c, k) : e.expires <= t THEN "expired"
    ELSE "live"

\* The set of key k that a get of k follows with no operation, only time,
\* between the two: its arguments and the seconds passed since.
preceding_set(k) ==
    IF last_op.op = "set" /\ last_op.key = k
    THEN [op |-> "set", value |-> last_op.value, ttl |-> last_op.ttl,
          elapsed |-> now - last_op.at]
    ELSE [op |-> "none"]

\* len(TTLCache): the number of unexpired entries.
ttl_len(c, t) == Len(ttl_expire(c, t))

\* The order of last use, kept apart from the TTLCache's own bookkeeping.
move_to_end(order, k) ==
    LET other(x) == x # k IN Append(SelectSeq(order, other), k)

still_stored(order, c) ==
    LET kept(x) == stored(c, x) # {} IN SelectSeq(order, kept)

stored_keys(c) == {c[i].key : i \in 1..Len(c)}

live_keys(c, t) == stored_keys(ttl_expire(c, t))

\* CacheManager.get
cache_get ==
    /\ gets < MaxGets
    /\ \E k \in Keys :
          LET value == ttl_get(cache, k, now) IN
          /\ cache' = ttl_touch(cache, k, now)
          /\ IF value # PyNone
             THEN /\ hits' = hits + 1
                  /\ UNCHANGED misses
                  /\ used' = move_to_end(used, k)
             ELSE /\ misses' = misses + 1
                  /\ UNCHANGED <<hits, used>>
          /\ last_op' = [op |-> "get", key |-> k, ret |-> value,
                         found |-> lookup(cache, k, now),
                         hits |-> hits, misses |-> misses,
                         prev |-> preceding_set(k)]
    /\ gets' = gets + 1
    /\ UNCHANGED now
    /\ UNCHANGED <<client_vars, handler_vars>>

\* CacheManager.set
cache_set ==
    /\ \E k \in Keys, v \in Values, ttl \in TtlArgs :
          LET after == set_item(cache, k, v, ttl, now)
              full == /\ ~ ttl_contains(cache, k, now)
                      /\ ttl_len(cache, now) = MaxSize
          IN
          /\ cache' = after
          /\ used' = still_stored(move_to_end(used, k), after)
          /\ last_op' = [op |-> "set", key |-> k, value |-> v, ttl |-> ttl,
                         at |-> now, ret |-> TRUE,
                         hits |-> hits, misses |-> misses,
                         full |-> full,
                         lru |-> IF full THEN Head(used) ELSE "",
                         evicted |-> live_keys(cache, now) \ stored_keys(after)]
    /\ UNCHANGED <<now, hits, misses, gets>>
    /\ UNCHANGED <<client_vars, handler_vars>>

\* A changed cache_delete: an entry that is stored counts as present, expired
\* or not.
cache_delete_of_stored ==
    /\ \E k \in Keys :
          /\ cache' = without(cache, k)
          /\ used' = still_stored(used, without(cache, k))
          /\ last_op' = [op |-> "delete", key |-> k,
                         ret |-> stored(cache, k) # {},
                         hits |-> hits, misses |-> misses]
    /\ UNCHANGED <<now, hits, misses, gets>>
    /\ UNCHANGED <<client_vars, handler_vars>>

\* CacheManager.delete
cache_delete ==
    /\ \E k \in Keys :
          /\ IF ttl_contains(cache, k, now)
             THEN /\ cache' = without(cache, k)
                  /\ used' = still_stored(used, without(cache, k))
             ELSE UNCHANGED <<cache, used>>
          /\ last_op' = [op |-> "delete", key |-> k,
                         ret |-> ttl_contains(cache, k, now),
                         hits |-> hits, misses |-> misses]
    /\ UNCHANGED <<now, hits, misses, gets>>
    /\ UNCHANGED <<client_vars, handler_vars>>

\* A changed cache_clear: the counters start again with the entries.
cache_clear_resetting_counters ==
    /\ cache' = <<>>
    /\ used' = <<>>
    /\ hits' = 0
    /\ misses' = 0
    /\ last_op' = [op |-> "clear", ret |-> TRUE,
                   hits |-> hits, misses |-> misses]
    /\ UNCHANGED <<now, gets>>
    /\ UNCHANGED <<client_vars, handler_vars>>

\* CacheManager.clear
cache_clear ==
    /\ cache' = <<>>
    /\ used' = <<>>
    /\ last_op' = [op |-> "clear", ret |-> TRUE,
                   hits |-> hits, misses |-> misses]
    /\ UNCHANGED <<now, hits, misses, gets>>
    /\ UNCHANGED <<client_vars, handler_vars>>

RECURSIVE gcd(_, _)
gcd(a, b) == IF b = 0 THEN a ELSE gcd(b, a % b)

\* The quotient n / d, as the fraction in lowest terms (the rounding of the
\* float that Python computes is not modelled).
Quotient(n, d) == [num |-> n \div gcd(n, d), den |-> d \div gcd(n, d)]

\* A changed hit_rate: the hits per miss.
hit_rate_per_miss(h, m) ==
    IF h + m > 0 /\ m > 0 THEN Quotient(h, m) ELSE Quotient(0, 1)

\* The "hit_rate" entry of get_stats.
hit_rate(h, m) ==
    IF h + m > 0 THEN Quotient(h, h + m) ELSE Quotient(0, 1)

\* CacheManager.get_stats. Whether measuring the length also purges the
\* expired entries depends on the cachetools release: either can happen.
cache_get_stats ==
    /\ \E purged \in {cache, ttl_expire(cache, now)} :
          /\ cache' = purged
          /\ used' = still_stored(used, purged)
    /\ last_op' = [op |-> "get_stats",
                   ret |-> [size |-> ttl_len(cache, now),
                            maxsize |-> MaxSize,
                            hits |-> hits,
                            misses |-> misses,
                            hit_rate |-> hit_rate(hits, misses)],
                   hits |-> hits, misses |-> misses]
    /\ UNCHANGED <<now, hits, misses, gets>>
    /\ UNCHANGED <<client_vars, handler_vars>>

\* CacheManager.keys: the unexpired keys (their order in the list is not
\* modelled).
cache_keys ==
    /\ last_op' = [op |-> "keys", ret |-> live_keys(cache, now),
                   hits |-> hits, misses |-> misses]
    /\ UNCHANGED <<cache, now, hits, misses, gets, used>>
    /\ UNCHANGED <<client_vars, handler_vars>>

\* A second passes.
tick ==
    /\ now < MaxClock
    /\ now' = now + 1
    /\ UNCHANGED <<cache, hits, misses, gets, used, last_op>>
    /\ UNCHANGED <<client_vars, handler_vars>>

(***************************************************************************)
(* SpecCache: the operations of one CacheManager, in any order.            *)
(***************************************************************************)
InitCacheSpec ==
    /\ client = NoClient
    /\ InitCounters
    /\ InitMakeRequest
    /\ InitGetRecords
    /\ InitHandlers
    /\ InitCache

NextCache ==
    \/ cache_get
    \/ cache_set
    \/ cache_delete
    \/ cache_clear
    \/ cache_get_stats
    \/ cache_keys
    \/ tick

SpecCache == InitCacheSpec /\ [][NextCache]_vars

(***************************************************************************)
(* SpecStats: get_stats on a cache that has counted any number of hits and *)
(* misses up to MaxLookups (an emptied cache keeps its counters).          *)
(***************************************************************************)
MaxLookups == 5

InitStats ==
    /\ client = NoClient
    /\ InitCounters
    /\ InitMakeRequest
    /\ InitGetRecords
    /\ InitHandlers
    /\ cache = <<>>
    /\ now = 0
    /\ used = <<>>
    /\ last_op = [op |-> "none"]
    /\ hits \in 0..MaxLookups
    /\ misses \in 0..(MaxLookups - hits)
    /\ gets = hits + misses

NextStats == cache_get \/ cache_set \/ cache_get_stats

SpecStats == InitStats /\ [][NextStats]_vars

(***************************************************************************)
(* SpecCacheFault: the operations of one CacheManager over a store whose   *)
(* operations can fail.                                                    *)
(***************************************************************************)
Methods == {"get", "set", "delete", "clear", "get_stats", "keys"}

StoreError == [type |-> "Exception", message |-> "store"]

\* The methods whose body is a try with an except Exception clause.
has_handler(m) == m \in {"get", "set", "delete", "clear"}

\* What the except clause of method m returns.
handler_result(m) == IF m = "get" THEN Return(PyNone) ELSE Return(FALSE)

\* How a call of method m ends when the TTLCache raises in it.
on_store_error(m) ==
    IF has_handler(m) THEN handler_result(m) ELSE Raise(StoreError)

\* A CacheManager call in which the TTLCache raises before changing anything.
store_fault ==
    /\ \E m \in Methods :
          last_op' = [op |-> "fault", method |-> m,
                      outcome |-> on_store_error(m),
                      hits |-> hits, misses |-> misses]
    /\ UNCHANGED <<cache, now, hits, misses, gets, used>>
    /\ UNCHANGED <<client_vars, handler_vars>>

NextCacheFault ==
    \/ cache_get
    \/ cache_set
    \/ cache_delete
    \/ cache_clear
    \/ cache_get_stats
    \/ cache_keys
    \/ tick
    \/ store_fault

SpecCacheFault == InitCacheSpec /\ [][NextCacheFault]_vars

(***************************************************************************)
(* Claims about _make_request, checked under SpecExec.                     *)
(***************************************************************************)
IsResponse(o) == o.kind = "response"
RateLimited(o) == IsResponse(o) /\ o.status = 429
AllRateLimited(seq) == \A i \in 1..Len(seq) : RateLimited(seq[i])
AllTimedOut(seq) == \A i \in 1..Len(seq) : seq[i].kind = "timeout"
Running == mr_pc \in {"sleep", "send", "await"}
NoWaitAfter(i) == \A w \in 1..Len(waits) : waits[w].after # i
\* The first k waits are those after attempts 1..k, of 2, 4, ..., 2^k seconds.
WaitsAreExactly(k) ==
    /\ Len(waits) = k
    /\ \A w \in 1..k : waits[w].after = w /\ waits[w].delay = 2 ^ w

\* C1 (as claimed): every response with a status >= 400 other than 429,
\* whatever its reason phrase and body text, ends the call on that attempt:
\* no backoff wait follows it, no further attempt is made, and the failure
\* raised carries the status and the body text.
C1_ErrorStatusFailsOnThatAttempt ==
    \A i \in 1..Len(attempts) :
        LET o == attempts[i] IN
        (IsResponse(o) /\ o.status >= 400 /\ o.status # 429) =>
            /\ i = Len(attempts)
            /\ mr_pc = "done"
            /\ mr_result = Raise(ApiError(o))
            /\ NoWaitAfter(i)

\* C2 (as claimed): while the transport has answered 429 on each of the
\* first k attempts (k < retries) the call is still running and has slept
\* exactly k times, for 2, 4, ..., 2^k seconds in that order; when attempt
\* k+1 is then answered with a status < 400, the call returns the parsed body
\* of that attempt after exactly k+1 requests and those k waits.
C2_RateLimitedThenAnyStatusBelow400 ==
    LET n == Len(attempts) IN
    /\ (n >= 1 /\ n < retries /\ AllRateLimited(attempts)) =>
          /\ Running
          /\ WaitsAreExactly(n)
          /\ requests \in {n, n + 1}
    /\ (/\ n >= 1
        /\ AllRateLimited(SubSeq(attempts, 1, n - 1))
        /\ IsResponse(attempts[n])
        /\ attempts[n].status < 400) =>
          /\ mr_pc = "done"
          /\ mr_result = Return(attempts[n].text.doc)
          /\ requests = n
          /\ WaitsAreExactly(n - 1)

\* C2 (amended): as claimed, for an attempt k+1 answered with a status < 400
\* and a body that parses as JSON: the call returns that parsed body after
\* exactly k+1 requests and k waits of 2, 4, ..., 2^k seconds in that order.
\* (A body that does not parse makes response.json() raise on that attempt.)
C2_RateLimitedThenSuccess ==
    LET n == Len(attempts) IN
    /\ (n >= 1 /\ n < retries /\ AllRateLimited(attempts)) =>
          /\ Running
          /\ WaitsAreExactly(n)
          /\ requests \in {n, n + 1}
    /\ (/\ n >= 1
        /\ AllRateLimited(SubSeq(attempts, 1, n - 1))
        /\ IsResponse(attempts[n])
        /\ attempts[n].status < 400
        /\ attempts[n].text.json) =>
          /\ mr_pc = "done"
          /\ mr_result = Return(attempts[n].text.doc)
          /\ requests = n
          /\ WaitsAreExactly(n - 1)

C2_Witness ==
    /\ mr_pc = "done"
    /\ retries = 3
    /\ Len(attempts) = 3
    /\ RateLimited(attempts[1]) /\ RateLimited(attempts[2])
    /\ attempts[3] = Response(200, Reason(FALSE), JsonB)
    /\ mr_result = Return(DocB)
    /\ requests = 3
    /\ Len(waits) = 2 /\ waits[1].delay = 2 /\ waits[2].delay = 4

\* C3: with retries = 3 and every attempt timing out, the call keeps going
\* through attempts 1 and 2, and ends on the third: exactly 3 requests, 2
\* waits (none after the third attempt), and a raised "Request timeout after
\* multiple retries" failure, not a return.
C3_TimeoutsExhaustRetries ==
    LET n == Len(attempts) IN
    retries = 3 =>
        /\ n <= 3 /\ requests <= 3
        /\ (n \in 1..2 /\ AllTimedOut(attempts)) =>
              Running /\ WaitsAreExactly(n)
        /\ (n = 3 /\ AllTimedOut(attempts)) =>
              /\ mr_pc = "done"
              /\ mr_result = Raise(RetriesExhausted)
              /\ requests = 3
              /\ WaitsAreExactly(2)

C3_Witness ==
    /\ retries = 3
    /\ mr_pc = "done"
    /\ attempts = <<Timeout, Timeout, Timeout>>
    /\ mr_result.act = "raise"
    /\ requests = 3

\* C4: a 429 answer to the final attempt (attempt = retries) is followed by
\* no wait and no further attempt: the call ends there, raising the same
\* failure as for any status >= 400, with status 429 and the body text.
C4_RateLimitedOnFinalAttempt ==
    LET n == Len(attempts) IN
    (n >= 1 /\ n = retries /\ RateLimited(attempts[n])) =>
        /\ mr_pc = "done"
        /\ mr_result = Raise(ApiError(attempts[n]))
        /\ mr_result.error.status = 429
        /\ mr_result.error.text = attempts[n].text
        /\ requests = n
        /\ NoWaitAfter(n)

C4_Witness ==
    /\ mr_pc = "done"
    /\ retries = 3
    /\ Len(attempts) = 3
    /\ AllRateLimited(attempts)
    /\ attempts[3].text = ConnError
    /\ mr_result.act = "raise"
    /\ Len(waits) = 2

\* C5: a transport failure that is not a timeout is retried, after a wait of
\* 2^attempt seconds, exactly when its description mentions a connection and
\* attempts remain; otherwise it is raised, unchanged, on the attempt where
\* it occurred, with no wait and no further attempt.
C5_TransportFailureRetriedIffConnection ==
    \A i \in 1..Len(attempts) :
        LET o == attempts[i] IN
        o.kind = "transport" =>
            IF o.conn /\ i < retries
            THEN /\ \E w \in 1..Len(waits) :
                        waits[w] = [after |-> i, delay |-> 2 ^ i,
                                    cause |-> "connection"]
                 /\ (i = Len(attempts) => Running)
            ELSE /\ i = Len(attempts)
                 /\ mr_pc = "done"
                 /\ mr_result = Raise(TransportError(o.conn))
                 /\ NoWaitAfter(i)

C5_Witness ==
    /\ mr_pc = "done"
    /\ retries = 3
    /\ attempts = <<TransportFailure(TRUE), TransportFailure(FALSE)>>
    /\ Len(waits) = 1
    /\ mr_result = Raise(TransportError(FALSE))

\* C6: the wait after failed attempt n is of exactly 2^n seconds, for each of
\* the three causes of a retry and for every retries value; the w-th wait of
\* a call is the one after attempt w.
C6_BackoffIsTwoToTheAttempt ==
    /\ \A w \in 1..Len(waits) :
          /\ waits[w].after = w
          /\ waits[w].delay = 2 ^ waits[w].after
          /\ waits[w].cause \in {"rate_limit", "timeout", "connection"}
    /\ mr_pc = "sleep" =>
          /\ Len(waits) = attempt
          /\ delay = 2 ^ attempt

C6_Witness ==
    /\ Len(waits) = 3
    /\ waits[1].cause = "rate_limit" /\ waits[1].delay = 2
    /\ waits[2].cause = "timeout" /\ waits[2].delay = 4
    /\ waits[3].cause = "connection" /\ waits[3].delay = 8

(***************************************************************************)
(* Claims about get_records and construction, checked under Spec.          *)
(***************************************************************************)
\* C7: with expand_details true and a list of n >= 1 summary items, whatever
\* detail fetches fail, get_records returns (a raised failure is only ever
\* that of the list request), its result has exactly n items, and position i
\* holds what item i's detail fetch returned if it succeeded and the summary
\* item if it failed; the loop has handled exactly the items before idx.
C7_PartialFailureKeepsSummary ==
    LET summaries == get_items(data)
        n == Len(summaries)
    IN
    /\ (gr_pc = "done" /\ gr_result.act = "raise") => data = PyNone
    /\ (expand_details /\ gr_pc \in {"loop", "detail"}) =>
          /\ n >= 1
          /\ Len(detailed_items) = idx - 1
          /\ Len(fetched) = idx - 1
    /\ (expand_details /\ gr_pc = "done" /\ n >= 1) =>
          /\ gr_result.act = "return"
          /\ Len(gr_result.value.items) = n
          /\ Len(fetched) = n
          /\ \A i \in 1..n :
                /\ fetched[i].status = "fetched" =>
                      gr_result.value.items[i] = fetched[i].value
                /\ fetched[i].status = "failed" =>
                      gr_result.value.items[i] = summaries[i]

C7_Witness ==
    /\ gr_pc = "done"
    /\ expand_details
    /\ get_items(data) = <<Summary1, Summary2, Summary1>>
    /\ Len(fetched) = 3
    /\ fetched[1].status = "fetched"
    /\ fetched[2].status = "failed"
    /\ fetched[3].status = "fetched"
    /\ gr_result = Return(records_result(data, <<DocA, Summary2, DocB>>))

\* C8: at most one upstream request of the call is in flight, and it is the
\* running _make_request call's; while the list request runs no item has been
\* handled; while the detail fetch of item i runs (its attempts and its
\* backoff waits) the list request has completed, every item before i has
\* been handled and no later one has been started; between two fetches
\* nothing is in flight.
C8_DetailFetchesAreSequential ==
    /\ Cardinality(inflight) <= 1
    /\ inflight \subseteq {target}
    /\ inflight # {} => mr_pc = "await"
    /\ (mr_pc # "idle" /\ target = ListTarget) =>
          /\ gr_pc = "list"
          /\ fetched = <<>>
          /\ detailed_items = <<>>
    /\ (mr_pc # "idle" /\ target.kind = "detail") =>
          /\ gr_pc = "detail"
          /\ data # PyNone
          /\ target.idx = idx
          /\ Len(fetched) = idx - 1
          /\ Len(detailed_items) = idx - 1
    /\ gr_pc \in {"idle", "loop", "done"} => (mr_pc = "idle" /\ inflight = {})

C8_Witness ==
    /\ gr_pc = "detail"
    /\ mr_pc = "sleep"
    /\ target = DetailTarget(3)
    /\ attempt = 2
    /\ Len(fetched) = 2
    /\ fetched[1].status = "failed"
    /\ fetched[2].status = "fetched"

\* C9: construction fails exactly when one of the five credentials is empty
\* or missing, and then nothing has been signed, no upstream request has been
\* sent and no fetch has started; whatever was signed, sent or started was so
\* on a client built from five non-empty credentials.
C9_ConstructionFailsFast ==
    /\ client.state = "ValueError" =>
          /\ \E f \in CredentialFields : ~Truthy(client.args[f])
          /\ signatures = 0
          /\ requests = 0
          /\ inflight = {}
          /\ gr_pc = "idle"
          /\ mr_pc = "idle"
    /\ client.state = "ready" =>
          \A f \in CredentialFields : Truthy(client.args[f])
    /\ (signatures > 0 \/ requests > 0 \/ gr_pc # "idle" \/ mr_pc # "idle") =>
          client.state = "ready"

C9_Witness ==
    /\ client.state = "ValueError"
    /\ client.args["token_secret"] = ""
    /\ \A f \in CredentialFields \ {"token_secret"} : client.args[f] = "x"
    /\ signatures = 0
    /\ requests = 0

(***************************************************************************)
(* Claims about CacheManager, checked under SpecCache.                     *)
(***************************************************************************)
\* C10: hits + misses is the number of get calls made so far; each get call
\* has incremented exactly one of the two counters by exactly one; and a get
\* of a key whose entry has expired incremented misses and returned None.
C10_EveryGetCountsOnce ==
    /\ hits + misses = gets
    /\ last_op.op = "get" =>
          /\ \/ (hits = last_op.hits + 1 /\ misses = last_op.misses)
             \/ (hits = last_op.hits /\ misses = last_op.misses + 1)
          /\ last_op.found = "expired" =>
                /\ misses = last_op.misses + 1
                /\ hits = last_op.hits
                /\ last_op.ret = PyNone

C10_Witness ==
    /\ last_op.op = "get"
    /\ last_op.found = "expired"
    /\ last_op.ret = PyNone
    /\ hits = 1
    /\ misses = 1
    /\ gets = 2


(***************************************************************************)
(* Claims about CacheManager.set and the lifetime of an entry, checked     *)
(* under SpecCache.                                                        *)
(***************************************************************************)
\* The last operation is a get(k) that follows set(k, v, ttl=1) with nothing
\* but time between them.
GetAfterShortTtlSet ==
    /\ last_op.op = "get"
    /\ last_op.prev.op = "set"
    /\ last_op.prev.ttl = 1

\* C11, as stated: after set(k, v, ttl=1) on a cache whose default TTL is
\* larger than one second, a get(k) issued at once returns v, and a get(k)
\* issued once one second has passed returns absent and counts a miss.
C11_ShortTtlExpiresAfterOneSecond ==
    GetAfterShortTtlSet =>
        /\ last_op.prev.elapsed = 0 => last_op.ret = last_op.prev.value
        /\ last_op.prev.elapsed >= 1 =>
              /\ last_op.ret = PyNone
              /\ misses = last_op.misses + 1

\* C11, amended: after set(k, v, ttl=1) on a cache whose default TTL is
\* larger than one second, a get(k) issued before the default TTL has passed
\* since the set (at once, or one second later) returns v and counts a hit;
\* a get(k) issued once the default TTL has passed returns absent and counts
\* a miss.
C11_ShortTtlEntryLivesTheDefaultTtl ==
    (GetAfterShortTtlSet /\ DefaultTtl > 1) =>
        /\ last_op.prev.elapsed < DefaultTtl =>
              /\ last_op.ret = last_op.prev.value
              /\ hits = last_op.hits + 1
              /\ misses = last_op.misses
        /\ last_op.prev.elapsed >= DefaultTtl =>
              /\ last_op.ret = PyNone
              /\ misses = last_op.misses + 1
              /\ hits = last_op.hits

\* A get one second after set(k, v, ttl=1) has returned v.
C11_Witness ==
    /\ GetAfterShortTtlSet
    /\ DefaultTtl > 1
    /\ last_op.prev.elapsed = 1
    /\ last_op.ret = last_op.prev.value

\* C12: the ttl argument of set has no effect: set(key, value, ttl) leaves the
\* cache as set(key, value) does, for every key, value and ttl, and the entry
\* expires exactly when the cache's default TTL, counted from that set, has
\* passed.
C12_TtlArgumentHasNoEffect ==
    /\ \A k \in Keys, v \in Values, ttl \in TtlArgs \ {NoTtl} :
          set_item(cache, k, v, ttl, now) = set_item(cache, k, v, NoTtl, now)
    /\ last_op.op = "set" =>
          /\ Len(cache) >= 1
          /\ cache[Len(cache)] =
                Entry(last_op.key, last_op.value, last_op.at + DefaultTtl)
          /\ \A t \in 0..MaxClock + DefaultTtl :
                ttl_contains(cache, last_op.key, t)
                    <=> t < last_op.at + DefaultTtl

\* A set with ttl=1 has stored an entry that is still read one second later.
C12_Witness ==
    /\ last_op.op = "set"
    /\ last_op.ttl = 1
    /\ now = last_op.at + 1
    /\ ttl_get(cache, last_op.key, now) = last_op.value


\* C13: the cache never holds more than maxsize entries; a set of a new key
\* into a cache of maxsize unexpired entries evicts exactly one entry, the
\* least recently used (set or read) one, and the new key is present
\* afterwards.
C13_FullCacheEvictsLeastRecentlyUsed ==
    /\ Len(cache) <= MaxSize
    /\ (last_op.op = "set" /\ last_op.full) =>
          /\ last_op.evicted = {last_op.lru}
          /\ last_op.lru # last_op.key
          /\ ttl_contains(cache, last_op.key, last_op.at)
          /\ Len(cache) = MaxSize

\* A set into a full cache, after a read has reordered the entries, has
\* evicted the least recently used one.
C13_Witness ==
    /\ last_op.op = "set"
    /\ last_op.full
    /\ last_op.hits >= 1
    /\ last_op.evicted = {last_op.lru}
    /\ ttl_contains(cache, last_op.key, now)

\* C14: hits and misses never decrease: set, delete, clear, get_stats and
\* keys leave both as they were, and get only ever raises them.
C14_CountersNeverDecrease ==
    /\ last_op.op \in {"set", "delete", "clear", "get_stats", "keys"} =>
          /\ hits = last_op.hits
          /\ misses = last_op.misses
    /\ last_op.op = "get" =>
          /\ hits >= last_op.hits
          /\ misses >= last_op.misses

\* A clear of a cache that had counted a hit and a miss has kept both.
C14_Witness ==
    /\ last_op.op = "clear"
    /\ hits = 1
    /\ misses = 1

(***************************************************************************)
(* Claim about get_stats, checked under SpecStats.                         *)
(***************************************************************************)
\* C15: the hit_rate that get_stats reports satisfies
\* hit_rate * (hits + misses) = hits whenever hits + misses > 0, and is 0
\* when no lookup has occurred; 3 hits and 2 misses give 3/5.
C15_HitRateIsHitsOverLookups ==
    last_op.op = "get_stats" =>
        LET stats == last_op.ret
            rate == stats.hit_rate
            total == hits + misses
        IN  /\ stats.hits = hits
            /\ stats.misses = misses
            /\ rate.den > 0
            /\ total > 0 => rate.num * total = hits * rate.den
            /\ total = 0 => rate.num = 0
            /\ (hits = 3 /\ misses = 2) => rate = [num |-> 3, den |-> 5]

\* get_stats after 3 hits and 2 misses has reported 3/5.
C15_Witness ==
    /\ last_op.op = "get_stats"
    /\ hits = 3
    /\ misses = 2
    /\ last_op.ret.hit_rate = [num |-> 3, den |-> 5]

(***************************************************************************)
(* Claim about a failing store, checked under SpecCacheFault.              *)
(***************************************************************************)
\* C16: no CacheManager operation lets a failure of the store escape: when
\* the store fails, get returns absent, set, delete and clear return false,
\* and get_stats and keys still return normally.
C16_StoreFailureNeverEscapes ==
    last_op.op = "fault" =>
        /\ last_op.outcome.act = "return"
        /\ last_op.method = "get" => last_op.outcome = Return(PyNone)
        /\ last_op.method \in {"set", "delete", "clear"} =>
              last_op.outcome = Return(FALSE)


(***************************************************************************)
(* Claims about get_sublist, get_record, execute_suiteql and get_records   *)
(* without expansion, checked under SpecCalls.                             *)
(***************************************************************************)
\* The request whose answers these are succeeded: its last answer is a
\* response with a status below 400 and a body that parses.
Succeeded(answers) ==
    /\ Len(answers) >= 1
    /\ IsResponse(answers[Len(answers)])
    /\ answers[Len(answers)].status < 400
    /\ answers[Len(answers)].text.json

\* The parsed body of the last answer.
Upstream(answers) == answers[Len(answers)].text.doc

\* How _make_request ends on the last of these answers.
Ending(answers) ==
    iteration(Len(answers), DefaultRetries, answers[Len(answers)])

Ended(op) == call.op = op /\ call.pc = "done"

\* C17: get_sublist never fails: when its request fails for any reason
\* (status >= 400, retries exhausted, a transport error that is not retried,
\* a body that does not parse) it returns a result with an empty item list,
\* and when the request succeeds it returns the upstream response unchanged.
C17_SublistNeverFails ==
    Ended("get_sublist") =>
        /\ call.result.act = "return"
        /\ Succeeded(call.answers) =>
              call.result = Return(Upstream(call.answers))
        /\ ~Succeeded(call.answers) =>
              call.result = Return([items |-> <<>>])

\* get_sublist has returned an empty item list after three timeouts.
C17_Witness ==
    /\ Ended("get_sublist")
    /\ AllTimedOut(call.answers)
    /\ Len(call.answers) = DefaultRetries
    /\ call.result = Return([items |-> <<>>])

\* C18: get_record returns exactly the parsed upstream response on success,
\* and on failure the failure of the request reaches the caller unchanged: it
\* is not swallowed and not replaced by a default record.
C18_RecordPassesThrough ==
    Ended("get_record") =>
        /\ Succeeded(call.answers) =>
              call.result = Return(Upstream(call.answers))
        /\ ~Succeeded(call.answers) =>
              /\ call.result.act = "raise"
              /\ call.result = Ending(call.answers)

\* get_record has raised the API error of a 500 answered on the first
\* attempt.
C18_Witness ==
    /\ Ended("get_record")
    /\ Len(call.answers) = 1
    /\ IsResponse(call.answers[1])
    /\ call.answers[1].status = 500
    /\ call.result = Raise(ApiError(call.answers[1]))

\* The query parameters among the signed parameters of a request.
SignedQuery(request) ==
    {<<<<request.signed[i][1]>>, request.signed[i][2]>> :
        i \in {j \in 1..Len(request.signed) :
                  request.signed[j][1] \notin OAuthNames}}

\* C19: for every request built by execute_suiteql and get_records, the
\* name/value query parameters among the signed parameters are the query
\* parameters the URL carries: limit and offset with the values given, for
\* execute_suiteql; every parameter whose value is not None and no other, for
\* get_records.
C19_SignedParametersAreTheUrlParameters ==
    /\ built.op \in {"execute_suiteql", "get_records"} =>
          SignedQuery(built) = url_params(built.query)
    /\ built.op = "execute_suiteql" =>
          SignedQuery(built) = {<<<<"limit">>, str(call.limit)>>,
                                <<<<"offset">>, str(call.offset)>>}
    /\ built.op = "get_records" =>
          SignedQuery(built) =
              {<<<<params[i][1]>>, str(params[i][2])>> :
                  i \in {j \in 1..Len(params) : params[j][2] # PyNone}}

\* What a result r owes to the upstream response d and to the caller's limit
\* and offset.
EnvelopeOf(r, d, limit, offset) ==
    /\ r.items = (IF "items" \in DOMAIN d THEN d.items ELSE <<>>)
    /\ "count" \in DOMAIN d => r.count = d.count
    /\ "hasMore" \in DOMAIN d => r.hasMore = d.hasMore
    /\ r.offset = offset
    /\ r.limit = limit
    /\ r.totalResults =
          (IF "totalResults" \in DOMAIN d THEN d.totalResults ELSE r.count)

\* C20: for get_records without expansion and for execute_suiteql, the
\* result copies the upstream items in order, copies count and hasMore,
\* echoes the caller's offset and limit, and sets totalResults to the
\* upstream totalResults when present and to the count otherwise; upstream
\* {items: [1, 2], count: 2, hasMore: false} with limit 2 and offset 0 gives
\* count 2, hasMore false, offset 0, limit 2, totalResults 2.
C20_EnvelopeCopiesUpstream ==
    /\ (gr_pc = "done" /\ ~expand_details /\ gr_result.act = "return"
        /\ {"limit", "offset"} \subseteq dict_keys(params)) =>
          EnvelopeOf(gr_result.value, data,
                     dict_get(params, "limit", PyNone),
                     dict_get(params, "offset", PyNone))
    /\ (Ended("execute_suiteql") /\ call.result.act = "return") =>
          EnvelopeOf(call.result.value, Upstream(call.answers),
                     call.limit, call.offset)

\* get_records without expansion, with limit 2 and offset 0, has returned the
\* two upstream items with count 2, hasMore false and totalResults 2.
C20_Witness ==
    /\ gr_pc = "done"
    /\ ~expand_details
    /\ gr_result.act = "return"
    /\ data = [items |-> <<Summary1, Summary2>>, count |-> 2,
               hasMore |-> FALSE]
    /\ gr_result.value.items = <<Summary1, Summary2>>
    /\ gr_result.value.count = 2
    /\ gr_result.value.hasMore = FALSE
    /\ gr_result.value.offset = PyInt(0)
    /\ gr_result.value.limit = PyInt(2)
    /\ gr_result.value.totalResults = 2

\* C21: an oauth_nonce is single-use: no two upstream requests sent by the
\* client carry the same oauth_nonce, the retry attempts of one call
\* included; the requests sent so far carry as many different nonces as
\* there are requests.
C21_NonceIsSingleUse == Cardinality(nonces) = requests

(***************************************************************************)
(* SpecSign: _get_oauth_headers, applied once to a method, a URL and a     *)
(* parameter dict, on a client with one of two consumer secrets.           *)
(***************************************************************************)
SignClients ==
    {ReadyClient,
     Constructed([ReadyClient.args EXCEPT !["consumer_secret"] = "y"])}

SignMethods == {"GET", "POST"}

\* The URLs a client signs: of a record collection, and of SuiteQL.
sign_url(c, service) ==
    IF service = "record" THEN base_url(c) \o <<"/", Entity>> ELSE suiteql_url(c)

\* Parameter values: plain text, non-ASCII text, and text holding a space,
\* a "+", an escape, and the separators of a query string.
SignValues ==
    {<<"a">>, <<"U+00E9">>, <<"a", " ", "U+00E9">>, <<"a", "+", "U+00E9">>,
     <<"a", "%20", "U+00E9">>, <<"a", "&", "q", "=", "U+00E9">>}

SignPairs == {<<name, v>> : name \in {"limit", "q"}, v \in SignValues}

\* Dicts of up to two request parameters, in either insertion order.
PlainDicts ==
    {<<>>} \cup {<<a>> : a \in SignPairs}
    \cup {d \in {<<a, b>> : a \in SignPairs, b \in SignPairs} : d[1][1] # d[2][1]}

\* Dicts in which a request parameter has the name of an OAuth parameter.
CollidingDicts ==
    {<<<<name, <<"a">>>>>> : name \in OAuthNames}
    \cup {<<<<"limit", <<"a">>>>, <<"oauth_nonce", <<"a">>>>>>,
          <<<<"oauth_nonce", <<"a">>>>, <<"limit", <<"a">>>>>>}

SignInputs ==
    [method : SignMethods, service : {"record", "suiteql"},
     params : PlainDicts \cup CollidingDicts]

\* One _get_oauth_headers call with its arguments and everything it computes.
signing(c, input, n) ==
    LET url == sign_url(c, input.service)
        headers == get_oauth_headers(c, input.method, url, input.params, n)
    IN [op |-> "_get_oauth_headers",
        method |-> input.method,
        service |-> input.service,
        url |-> url,
        params |-> input.params,
        signed |-> headers.signed,
        base_string |-> headers.base_string,
        signature |-> headers.signature,
        Authorization |-> headers.Authorization]

sign ==
    /\ built = NoRequest
    /\ \E input \in SignInputs : built' = signing(client, input, signatures + 1)
    /\ signatures' = signatures + 1
    /\ UNCHANGED <<client, requests, inflight, mr_vars, gr_vars, params, call,
                   nonces, cache_vars, handler_vars>>

InitSign ==
    /\ client \in SignClients
    /\ InitCounters
    /\ InitMakeRequest
    /\ InitGetRecords
    /\ InitHandlers
    /\ InitCache

NextSign == sign

SpecSign == InitSign /\ [][NextSign]_vars

\* What the first signature of each client is for each input.
Signed == [c \in SignClients |-> [input \in SignInputs |-> signing(c, input, 1)]]

IsSigned == built.op = "_get_oauth_headers"

\* The name/value pairs of a dict.
Mapping(d) == {d[i] : i \in 1..Len(d)}

Collides(d) == dict_keys(d) \cap OAuthNames # {}

\* The tokens of a text.
Tokens(text) == {text[i] : i \in 1..Len(text)}

\* C22: with timestamp and nonce fixed, a call whose parameters have no OAuth
\* name gives the same base string, signature and header as every call with
\* the same method, URL, credentials and parameter mapping, whatever the
\* insertion order of the parameters; a call that differs in the method, the
\* URL or a parameter value gives another base string and another signature.
C22_SigningIsDeterministicAndInjective ==
    (IsSigned /\ ~Collides(built.params)) =>
        \A input \in SignInputs :
            ~Collides(input.params) =>
                LET other == Signed[client][input] IN
                IF /\ input.method = built.method
                   /\ input.service = built.service
                   /\ Mapping(input.params) = Mapping(built.params)
                THEN /\ other.base_string = built.base_string
                     /\ other.signature = built.signature
                     /\ other.Authorization = built.Authorization
                ELSE /\ other.base_string # built.base_string
                     /\ other.signature # built.signature

\* Two parameters have been signed that were inserted in the order q, limit.
C22_Witness ==
    /\ IsSigned
    /\ Len(built.params) = 2
    /\ built.params[1][1] = "q"
    /\ built.params[2][1] = "limit"
    /\ built.signed[1][1] = "q"
    /\ Len(built.base_string) > 2

\* C23: when a request parameter has the name of an OAuth parameter, signing
\* gives a signature and a header, and the signed parameters hold that name
\* exactly once, with the value that _get_oauth_headers generated.
C23_OAuthParameterWinsACollision ==
    (IsSigned /\ Collides(built.params)) =>
        /\ built.signature.msg = base_string(built.method, built.url, built.signed)
        /\ Len(built.Authorization) > 0
        /\ \A name \in dict_keys(built.params) \cap OAuthNames :
              /\ Cardinality({i \in 1..Len(built.signed) :
                                 built.signed[i][1] = name}) = 1
              /\ dict_get(built.signed, name, <<>>)
                    = dict_get(oauth_params(client, signatures), name, <<>>)
              /\ dict_get(built.signed, name, <<>>)
                    # dict_get(built.params, name, <<>>)

\* A call whose parameters are limit and oauth_nonce has been signed.
C23_Witness ==
    /\ IsSigned
    /\ dict_keys(built.params) = {"limit", "oauth_nonce"}
    /\ dict_get(built.params, "oauth_nonce", <<>>) = <<"a">>
    /\ dict_get(built.signed, "oauth_nonce", <<>>) = <<"1">>

\* The names of the entries of a header, in their order.
HeaderNames(header) == [i \in 1..Len(header) |-> header[i][1]]

\* C24: the Authorization header is the realm entry followed by the seven
\* OAuth parameters consumer key, nonce, signature, signature method,
\* timestamp, token and version, in this order, each once and with its quoted
\* OAuth value; every request parameter that is no OAuth name is in the
\* signature base string and not in the header.
C24_HeaderIsRealmThenSevenOAuthParameters ==
    IsSigned =>
        /\ HeaderNames(built.Authorization)
              = <<"realm", "oauth_consumer_key", "oauth_nonce", "oauth_signature",
                  "oauth_signature_method", "oauth_timestamp", "oauth_token",
                  "oauth_version">>
        /\ header_value(built.Authorization, "realm") = [text |-> <<client.args.realm>>]
        /\ header_value(built.Authorization, "oauth_signature")
              = [quoted |-> built.signature]
        /\ \A name \in OAuthNames :
              header_value(built.Authorization, name)
                 = [text |-> quote(dict_get(oauth_params(client, signatures),
                                            name, <<>>))]
        /\ \A name \in dict_keys(built.params) \ OAuthNames :
              /\ name \in Tokens(built.base_string)
              /\ name \notin Tokens(HeaderNames(built.Authorization))

\* A GET with the parameters limit and q has been signed.
C24_Witness ==
    /\ IsSigned
    /\ built.method = "GET"
    /\ dict_keys(built.params) = {"limit", "q"}
    /\ Len(built.Authorization) = 8

\* The number of tokens tok in text.
Count(text, tok) == Cardinality({i \in 1..Len(text) : text[i] = tok})

HasValueWith(d, tok) == \E i \in 1..Len(d) : tok \in Tokens(d[i][2])

\* C25: the signature base string holds exactly two "&", the one after the
\* method and the one after the quoted URL, and no "=", no space and no "+";
\* a space of a parameter value is in it as "%2520", the escape of its
\* escape "%20", and a "+" is in it only when a value holds a "+".
C25_BaseStringHoldsNoSeparatorOfAValue ==
    IsSigned =>
        /\ Count(built.base_string, "&") = 2
        /\ built.base_string[2] = "&"
        /\ built.base_string[Len(quote(built.url)) + 3] = "&"
        /\ Tokens(built.base_string) \cap {"=", " ", "+"} = {}
        /\ HasValueWith(built.params, " ") => "%2520" \in Tokens(built.base_string)
        /\ "%252B" \in Tokens(built.base_string) => HasValueWith(built.params, "+")
        /\ "%2B" \notin Tokens(built.base_string)

\* A value with a space and a value with "&" and "=" have been signed.
C25_Witness ==
    /\ IsSigned
    /\ dict_get(built.params, "limit", <<>>) = <<"a", " ", "U+00E9">>
    /\ dict_get(built.params, "q", <<>>) = <<"a", "&", "q", "=", "U+00E9">>
    /\ "%2520" \in Tokens(built.base_string)
    /\ "%2526" \in Tokens(built.base_string)

\* The call has ended after using every attempt of a budget of at least one.
Exhausted == mr_pc = "done" /\ retries >= 1 /\ Len(attempts) = retries

\* The failure the try block raises on the answer o.
Cause(o) == try_block(retries, retries, o).error

\* Every attempt ended in a failure that the except clause retries as a
\* connection failure.
AllConnectionFailures(seq) ==
    \A i \in 1..Len(seq) :
        /\ try_block(i, retries, seq[i]).act = "raise"
        /\ seq[i].kind # "timeout"
        /\ MentionsConnection(try_block(i, retries, seq[i]).error)

\* The failure raised after only timeouts names the number of attempts.
ExhaustedTimeoutsNameTheAttempts ==
    (Exhausted /\ AllTimedOut(attempts)) =>
        /\ mr_result.act = "raise"
        /\ "words" \in DOMAIN mr_result.error
        /\ ToString(Len(attempts)) \in Tokens(mr_result.error.words)

\* The failure raised after only connection failures is the last of them.
ExhaustedConnectionFailuresNameTheCause ==
    (Exhausted /\ AllConnectionFailures(attempts)) =>
        mr_result = Raise(Cause(attempts[Len(attempts)]))

\* C26: when _make_request has used every attempt on timeouts, the failure it
\* raises names the number of attempts made; when it has used every attempt
\* on connection failures it retries, the failure it raises is the last
\* underlying failure.
C26_ExhaustionNamesAttemptsAndCause ==
    /\ ExhaustedTimeoutsNameTheAttempts
    /\ ExhaustedConnectionFailuresNameTheCause

\* Every wait so far follows its own attempt: the w-th wait is the one after
\* attempt w.
EachWaitFollowsItsAttempt == \A w \in 1..Len(waits) : waits[w].after = w

\* C30 (as claimed): for every attempt budget, a call that has ended made at
\* most that many attempts and exactly (attempts made - 1) backoff waits.
C30_WaitsAreAttemptsLessOne ==
    mr_pc = "done" =>
        /\ Len(attempts) <= retries
        /\ Len(waits) = Len(attempts) - 1

\* The counts of a call: never more attempts than the budget; while the call
\* waits, one wait for each attempt made; otherwise one wait for each attempt
\* but the current or last one, and none when no attempt was made.
AttemptsAndWaitsAgree ==
    /\ Len(attempts) <= retries
    /\ EachWaitFollowsItsAttempt
    /\ mr_pc = "sleep" => Len(waits) = Len(attempts)
    /\ mr_pc = "await" => Len(waits) = Len(attempts)
    /\ mr_pc = "send" => Len(waits) = Len(attempts)
    /\ mr_pc = "done" =>
          /\ Len(attempts) >= 1 => Len(waits) = Len(attempts) - 1
          /\ Len(attempts) >= 1 => NoWaitAfter(Len(attempts))
          /\ Len(attempts) = 0 => (retries = 0 /\ Len(waits) = 0)

\* C30: for every attempt budget of at least one, a call whose attempts each
\* end does end, makes at most as many attempts as the budget and exactly
\* (attempts made - 1) backoff waits, one after every attempt but the last;
\* with a budget of zero it ends with no attempt and no wait.
C30_CallEndsWithAttemptsLessOneWaits ==
    /\ [](AttemptsAndWaitsAgree)
    /\ (Running ~> (mr_pc = "done"))

\* A call with a budget of three has ended after three attempts and two waits.
C30_Witness ==
    /\ mr_pc = "done"
    /\ retries = 3
    /\ Len(attempts) = 3
    /\ Len(waits) = 2

(***************************************************************************)
(* SpecHandlers: the cached endpoints of main.py, each request a task of   *)
(* the one event loop, all tasks sharing the module's CacheManager. A task *)
(* runs until it awaits the upstream answer or a backoff sleep; only then  *)
(* another task runs. The handlers are get_netsuite_records and            *)
(* get_netsuite_records_formatted with format_type "database", called with *)
(* expand false and the default limit, offset, q and fields.               *)
(***************************************************************************)
MaxRequests == 3

PyList(its) == [list |-> its]
PyDict(d) == [dict |-> d]

\* Python's truth value of a cached value: None and an empty list are false.
bool(v) ==
    IF v = PyNone THEN FALSE
    ELSE IF "list" \in DOMAIN v THEN Len(v.list) > 0
    ELSE TRUE

Endpoints == {"records", "formatted"}
Entities == {"customer", "invoice"}

\* The query parameters of a request that gives none: Query(1000), Query(0),
\* Query(None); expand is given as false.
DefaultQuery ==
    [limit |-> PyInt(1000), offset |-> PyInt(0), q |-> PyNone,
     fields |-> PyNone, expandSubresources |-> PyNone, expand |-> FALSE]

\* The requests: get_netsuite_records for one entity, the database format
\* for both.
HandlerRequests ==
    {req @@ DefaultQuery :
        req \in {r \in [endpoint : Endpoints, entity : Entities, no_cache : {FALSE}] :
                    r.endpoint = "formatted" \/ r.entity = "customer"}}

\* Python's truth value of an Optional[str] parameter: None and "" are false.
given(v) == v # PyNone /\ v.str # <<>>

\* f"{v or ''}"
or_empty(v) == IF given(v) THEN v.str ELSE <<>>

\* f"{expand}" of a bool
bool_text(b) == IF b THEN <<"True">> ELSE <<"False">>

\* cache_key: the f-string of the endpoint. The custom format's user_id is
\* its default, 0, and the formatted endpoint's format_type is "database".
cache_key(req) ==
    LET entity_limit_offset ==
            <<req.entity, ":">> \o str(req.limit) \o <<":">> \o str(req.offset)
    IN CASE req.endpoint = "records" ->
              <<"netsuite", ":">> \o entity_limit_offset \o <<":">>
              \o or_empty(req.q) \o <<":">> \o or_empty(req.fields)
              \o <<":">> \o bool_text(req.expand)
         [] req.endpoint = "formatted" ->
              <<"netsuite_formatted", ":">> \o entity_limit_offset \o <<":">>
              \o or_empty(req.q) \o <<":">> \o or_empty(req.fields)
              \o <<":">> \o bool_text(req.expand) \o <<":", "database">>
         [] req.endpoint = "custom" ->
              <<"netsuite_custom", ":">> \o entity_limit_offset
              \o <<":", "0", ":">> \o or_empty(req.fields)
              \o <<":">> \o bool_text(req.expand)

\* The ttl argument of the handlers' cache.set calls.
HandlerTtl == 300

\* Upstream answers to a list request: a list with an item, an empty list,
\* rate limiting, a failure.
HandlerOutcomes ==
    {Ok(Text("list", TRUE, [items |-> <<Summary1>>], FALSE)),
     Ok(Text("list", TRUE, [items |-> <<>>], FALSE)),
     Response(429, Reason(FALSE), PlainError),
     Response(500, Reason(FALSE), PlainError)}

\* get_records with expand_details false on the parsed list response d.
handler_data(req, d) ==
    [records_result(d, get_items(d)) EXCEPT !.entity = req.entity]

\* What the handler stores and returns for the data of get_records:
\* the dict itself, or transform_for_database(data), the items list.
formatted_data(req, d) ==
    IF req.endpoint = "records"
    THEN PyDict(handler_data(req, d))
    ELSE PyList(handler_data(req, d).items)

\* The handler's return value: get_netsuite_records adds "cached" to the
\* dict, get_netsuite_records_formatted returns the value as it is.
response(req, value, from_cache) ==
    IF req.endpoint = "records"
    THEN Return([body |-> value, cached |-> from_cache])
    ELSE Return([body |-> value])

\* A task that starts to handle req.
NewTask(req) ==
    [pc |-> IF req.no_cache THEN "fetch" ELSE "get",
     req |-> req,
     value |-> PyNone,
     seen |-> 0,
     lookup |-> "none",
     attempt |-> 1,
     sent |-> FALSE,
     stored |-> FALSE,
     result |-> NoResult]

\* A changed yields: every step of a task is a point where the loop may run
\* another task.
yields_everywhere(pc) == TRUE

\* A changed yields: the backoff does not give up the loop (time.sleep).
yields_but_in_backoff(pc) == pc \in {"attempt", "done"}

\* The places where a task gives up the event loop: the await of the
\* upstream answer, the await of asyncio.sleep, and its end.
yields(pc) == pc \in {"attempt", "backoff", "done"}

\* Task h can run: the loop is free, or h holds it.
may_run(h) == running \in {NoTask, h}

\* Task h goes on as task record t.
goes_on(h, t) ==
    /\ tasks' = [tasks EXCEPT ![h] = t]
    /\ running' = IF yields(t.pc) THEN NoTask ELSE h

client_rest == <<client, signatures, inflight, mr_vars, gr_vars, call_vars>>

\* An HTTP request arrives and a task is made for its handler.
arrive(h) ==
    /\ tasks[h].pc \in {"idle", "done"}
    /\ arrived < MaxRequests
    /\ arrived' = arrived + 1
    /\ \E req \in HandlerRequests : tasks' = [tasks EXCEPT ![h] = NewTask(req)]
    /\ UNCHANGED <<running, sets_made, requests, client_rest, serve_vars, cache_vars>>

\* cache.get, first half: value = self.cache.get(key), and the counter that
\* "+= 1" is about to add to is read.
get_value(h) ==
    /\ tasks[h].pc = "get"
    /\ may_run(h)
    /\ LET value == ttl_get(cache, cache_key(tasks[h].req), now) IN
       goes_on(h, [tasks[h] EXCEPT !.pc = "count", !.value = value,
                                   !.seen = IF value # PyNone THEN hits ELSE misses])
    /\ cache' = ttl_touch(cache, cache_key(tasks[h].req), now)
    /\ UNCHANGED <<now, hits, misses, gets, used, last_op>>
    /\ UNCHANGED <<sets_made, arrived, requests, client_rest, serve_vars>>

\* cache.get, second half: the hit or the miss is counted and the value
\* returned.
get_count(h) ==
    /\ tasks[h].pc = "count"
    /\ may_run(h)
    /\ IF tasks[h].value # PyNone
       THEN /\ hits' = tasks[h].seen + 1
            /\ goes_on(h, [tasks[h] EXCEPT !.pc = "check", !.seen = 0,
                                        !.lookup = "hit"])
            /\ UNCHANGED misses
       ELSE /\ misses' = tasks[h].seen + 1
            /\ goes_on(h, [tasks[h] EXCEPT !.pc = "check", !.seen = 0,
                                        !.lookup = "miss"])
            /\ UNCHANGED hits
    /\ gets' = gets + 1
    /\ UNCHANGED <<cache, now, used, last_op>>
    /\ UNCHANGED <<sets_made, arrived, requests, client_rest, serve_vars>>

\* if cached_data: return it; otherwise go on to the upstream fetch.
check(h) ==
    /\ tasks[h].pc = "check"
    /\ may_run(h)
    /\ IF bool(tasks[h].value)
       THEN goes_on(h, [tasks[h] EXCEPT
                            !.pc = "done",
                            !.result = response(tasks[h].req, tasks[h].value, TRUE)])
       ELSE goes_on(h, [tasks[h] EXCEPT !.pc = "fetch"])
    /\ UNCHANGED <<sets_made, arrived, requests, client_rest, serve_vars, cache_vars>>

\* get_records: the request of an attempt goes out and the task awaits the
\* answer.
handler_send(h) ==
    /\ tasks[h].pc = "fetch"
    /\ may_run(h)
    /\ goes_on(h, [tasks[h] EXCEPT !.pc = "attempt", !.sent = TRUE])
    /\ requests' = requests + 1
    /\ UNCHANGED <<sets_made, arrived, client_rest, serve_vars, cache_vars>>

\* The answer o arrives and _make_request runs to its return, its raise or
\* its asyncio.sleep.
answer(h, o) ==
    /\ tasks[h].pc = "attempt"
    /\ may_run(h)
    /\ LET s == iteration(tasks[h].attempt, DefaultRetries, o) IN
       IF s.act = "sleep"
       THEN goes_on(h, [tasks[h] EXCEPT !.pc = "backoff"])
       ELSE IF s.act = "return"
       THEN goes_on(h, [tasks[h] EXCEPT
                            !.pc = "store",
                            !.attempt = 1,
                            !.value = formatted_data(tasks[h].req, s.value)])
       ELSE goes_on(h, [tasks[h] EXCEPT !.pc = "done", !.attempt = 1, !.result = s])
    /\ UNCHANGED <<sets_made, arrived, requests, client_rest, serve_vars, cache_vars>>

\* asyncio.sleep returns and the loop of _make_request goes to its next
\* attempt.
handler_wake(h) ==
    /\ tasks[h].pc = "backoff"
    /\ may_run(h)
    /\ goes_on(h, [tasks[h] EXCEPT !.pc = "fetch", !.attempt = @ + 1])
    /\ UNCHANGED <<sets_made, arrived, requests, client_rest, serve_vars, cache_vars>>

\* cache.set(cache_key, data, ttl=300) and the return of the response.
store(h) ==
    /\ tasks[h].pc = "store"
    /\ may_run(h)
    /\ cache' = set_item(cache, cache_key(tasks[h].req), tasks[h].value,
                         HandlerTtl, now)
    /\ sets_made' = sets_made \cup {<<cache_key(tasks[h].req), tasks[h].value>>}
    /\ goes_on(h, [tasks[h] EXCEPT
                       !.pc = "done",
                       !.stored = TRUE,
                       !.result = response(tasks[h].req, tasks[h].value, FALSE)])
    /\ UNCHANGED <<now, hits, misses, gets, used, last_op>>
    /\ UNCHANGED <<arrived, requests, client_rest, serve_vars>>

\* The steps of task h.
step(h) ==
    \/ get_value(h)
    \/ get_count(h)
    \/ check(h)
    \/ handler_send(h)
    \/ \E o \in HandlerOutcomes : answer(h, o)
    \/ handler_wake(h)
    \/ store(h)

InitHandlersSpec ==
    /\ client = ReadyClient
    /\ InitCounters
    /\ InitMakeRequest
    /\ InitGetRecords
    /\ InitHandlers
    /\ InitCache

NextHandlers == \E h \in Handlers : arrive(h) \/ step(h)

SpecHandlers == InitHandlersSpec /\ [][NextHandlers]_vars

\* C27: with handlers running as tasks of one event loop and interleaving at
\* their awaits, the shared cache holds at most maxsize entries, no key
\* twice, hits + misses is the number of completed get calls, and every
\* entry holds a value that a handler passed to set for that very key.
C27_SharedCacheIsNeverCorrupted ==
    /\ Len(cache) <= MaxSize
    /\ \A i, j \in 1..Len(cache) : cache[i].key = cache[j].key => i = j
    /\ hits + misses = gets
    /\ \A i \in 1..Len(cache) : <<cache[i].key, cache[i].value>> \in sets_made

\* After a first request was served and stored, task 1 is in a backoff wait
\* of its fetch while task 2, after its lookup, is about to store.
C27_Witness ==
    /\ tasks["task 1"].pc = "backoff"
    /\ tasks["task 2"].pc = "store"
    /\ Len(cache) = 1
    /\ gets = 3
    /\ misses = 3

\* Task g is handling a request.
Active(g) == tasks[g].pc \notin {"idle", "done"}

\* C28: while a task is in a backoff wait of _make_request it does not hold
\* the event loop, and every other task that handles a request can take its
\* next step.
C28_BackoffLeavesTheLoopToTheOthers ==
    \A h \in Handlers :
        tasks[h].pc = "backoff" =>
            /\ running # h
            /\ \A g \in Handlers \ {h} : Active(g) => ENABLED step(g)

\* Task 2 is in the middle of cache.get while task 1 is in a backoff wait.
C28_Witness ==
    /\ tasks["task 1"].pc = "backoff"
    /\ tasks["task 2"].pc = "count"
    /\ running = "task 2"

\* C29: a request without no_cache whose cache lookup was counted as a hit
\* sends no upstream request, stores nothing and returns the cached value,
\* an empty item list included; a request without no_cache that sends an
\* upstream request or stores its result had its lookup counted as a miss.
C29_HitServesTheCachedValue ==
    \A h \in Handlers :
        tasks[h].pc # "idle" =>
            /\ tasks[h].lookup = "hit" =>
                  /\ ~tasks[h].sent
                  /\ ~tasks[h].stored
                  /\ tasks[h].pc = "done" =>
                        /\ tasks[h].result.act = "return"
                        /\ tasks[h].result.value.body = tasks[h].value
            /\ (~tasks[h].req.no_cache /\ (tasks[h].sent \/ tasks[h].stored)) =>
                  tasks[h].lookup = "miss"

\* The call returned the parsed body of its last attempt, whose status was
\* below 400.
ReturnedABody ==
    /\ mr_result.act = "return"
    /\ Len(attempts) >= 1
    /\ LET o == attempts[Len(attempts)] IN
          /\ IsResponse(o)
          /\ o.status < 400
          /\ o.text.json
          /\ mr_result.value = o.text.doc
          /\ mr_result.value # PyNone

\* C31: for every retries value, 0 included, a call of _make_request that has
\* ended either returned the parsed body of an attempt whose status was below
\* 400 or raised a failure; it never ends normally with None.
C31_CompletedCallReturnsABodyOrRaises ==
    mr_pc = "done" => (mr_result.act = "raise" \/ ReturnedABody)

(***************************************************************************)
(* SpecServe: get_netsuite_records and get_netsuite_custom_format serving  *)
(* one request after another over the module's CacheManager, from the      *)
(* arrival of a request to its HTTP response: the cache lookup, the client *)
(* built from the settings, the list request of get_records with its       *)
(* retries, cache.set, and the except clause. The requests ask for one     *)
(* entity with expand false and differ in q, expandSubresources and        *)
(* no_cache.                                                               *)
(***************************************************************************)
MaxServed == 2

\* The settings of the process: every credential, or (the default of
\* config.py) an empty token secret.
ServeSettings ==
    {ReadyClient.args, [ReadyClient.args EXCEPT !.token_secret = ""]}

\* The custom format has no expandSubresources parameter, and is asked
\* without no_cache.
ServeRequests ==
    {req \in [endpoint : {"records", "custom"},
              entity : {"customer"},
              limit : {PyInt(1000)},
              offset : {PyInt(0)},
              q : {PyNone, PyStr(<<"a">>)},
              fields : {PyNone},
              expandSubresources : {PyNone, PyStr(<<"true">>)},
              expand : {FALSE},
              no_cache : BOOLEAN] :
        req.endpoint = "custom" =>
            (req.expandSubresources = PyNone /\ ~req.no_cache)}

\* query_params = {"limit": limit, "offset": offset}, then q, fields and
\* (but in the custom format) expandSubresources when they are given.
handler_params(req) ==
    LET base == <<<<"limit", req.limit>>, <<"offset", req.offset>>>>
        with_q == IF given(req.q) THEN Append(base, <<"q", req.q>>) ELSE base
        with_fields ==
            IF given(req.fields)
            THEN Append(with_q, <<"fields", req.fields>>)
            ELSE with_q
    IN IF req.endpoint # "custom" /\ given(req.expandSubresources)
       THEN Append(with_fields, <<"expandSubresources", req.expandSubresources>>)
       ELSE with_fields

\* What the handler hands to get_records: everything of the request that
\* the upstream calls depend on.
forwarded(req) ==
    [entity |-> req.entity, params |-> handler_params(req), expand |-> req.expand]

\* A response body text that contains the words in words and no "connection".
TextWith(name, words) ==
    [name |-> name, json |-> FALSE, doc |-> PyNone, conn |-> FALSE, words |-> words]

\* Upstream answers to the list request.
ServeOutcomes ==
    {Ok(Text("list", TRUE, [items |-> <<Summary1>>], FALSE)),
     Timeout,
     Response(500, Reason(FALSE), TextWith("record 404 is locked", {"404"})),
     Response(404, Reason(FALSE), TextWith("authentication context lost", {"authentication"}))}
    \cup {Response(s, Reason(FALSE), PlainError) : s \in {401, 404, 429, 500}}

\* ValueError("Missing required NetSuite credentials")
MissingCredentials ==
    [type |-> "ValueError", msg |-> "Missing required NetSuite credentials"]

\* word in str(e).lower(), for the words the except clause looks for. The
\* message of an API error holds the status, the reason phrase and the
\* response text; no reason phrase and no other message holds such a word.
error_mentions(e, word) ==
    /\ e.type = "Exception"
    /\ e.msg = "NetSuite API error"
    /\ \/ word = ToString(e.status)
       \/ ("words" \in DOMAIN e.text /\ word \in e.text.words)

\* The upstream status of the failure e when it is one of those that the
\* handler answers with, 500 for every other failure.
http_status_of_upstream_status(e) ==
    IF e.type = "Exception" /\ e.msg = "NetSuite API error"
       /\ e.status \in {401, 404, 429}
    THEN e.status
    ELSE 500

\* The status code of the HTTPException that the except clause of
\* get_netsuite_records raises for e.
http_status(e) ==
    IF error_mentions(e, "401") \/ error_mentions(e, "authentication") THEN 401
    ELSE IF error_mentions(e, "404") THEN 404
    ELSE IF error_mentions(e, "429") \/ error_mentions(e, "rate limit") THEN 429
    ELSE 500

HTTPException(status) == [type |-> "HTTPException", status_code |-> status]

\* How the handler of req ends on the failure e: get_netsuite_records raises
\* an HTTPException, get_netsuite_custom_format returns a body that says so.
error_response(req, e) ==
    IF req.endpoint = "records"
    THEN Raise(HTTPException(http_status(e)))
    ELSE Return([body |-> PyDict([success |-> FALSE, user |-> 0, count |-> 0,
                                  data |-> <<>>])])

\* custom_format_response: each item with its fields under their display
\* names ("id" has one, "form" has none), and the count of the items.
custom_format_response(d) ==
    LET display(field) == IF field = "id" THEN "Ma Don hang" ELSE field
        transformed(item) ==
            [name \in {display(f) : f \in DOMAIN item} |->
                item[CHOOSE f \in DOMAIN item : display(f) = name]]
    IN [success |-> TRUE,
        user |-> 0,
        count |-> Len(d.items),
        data |-> [i \in 1..Len(d.items) |-> transformed(d.items[i])]]

\* What the handler of req stores and returns for the parsed list response
\* d of get_records.
served_data(req, d) ==
    IF req.endpoint = "custom"
    THEN PyDict(custom_format_response(handler_data(req, d)))
    ELSE formatted_data(req, d)

\* The response of a handler that has stored or found value.
served_response(req, value, from_cache) ==
    IF req.endpoint = "custom"
    THEN Return([body |-> value])
    ELSE response(req, value, from_cache)

\* A changed first_step: every request looks its key up.
first_step_always_get(req) == "get"

\* if not no_cache: cache.get(cache_key); otherwise straight to the client.
first_step(req) == IF req.no_cache THEN "construct" ELSE "get"

\* A changed on_fetched: the outcome of the fetch, a failure included, goes
\* on to cache.set.
on_fetched_storing_failures(req, s) ==
    IF s.act = "return"
    THEN [pc |-> "store", value |-> served_data(req, s.value), error |-> PyNone]
    ELSE [pc |-> "store", value |-> error_response(req, s.error), error |-> s.error]

\* The handler after await get_records(...): on to cache.set with the data,
\* or into the except clause with the failure.
on_fetched(req, s) ==
    IF s.act = "return"
    THEN [pc |-> "store", value |-> served_data(req, s.value), error |-> PyNone]
    ELSE [pc |-> "failed", value |-> PyNone, error |-> s.error]

\* What stored_by holds for key k, as a set of at most one: the request that
\* set k last, and the value it set.
storer(k) == {p[2] : p \in {x \in stored_by : x[1] = k}}

\* A request arrives while no other is served, any number of seconds after
\* the response to the one before it (the time that serving a request takes
\* is not counted). What the handler finds is kept with it: the counters and
\* the cache before it ran.
serve_arrive ==
    /\ serving.pc \in {"idle", "done"}
    /\ arrived < MaxServed
    /\ arrived' = arrived + 1
    /\ \E later \in now..MaxClock : now' = later
    /\ \E req \in ServeRequests :
          serving' = [pc |-> first_step(req),
                      req |-> req,
                      value |-> PyNone,
                      error |-> PyNone,
                      lookup |-> "none",
                      found |-> [state |-> "none"],
                      attempt |-> 1,
                      sent |-> FALSE,
                      stored |-> FALSE,
                      hits |-> hits,
                      misses |-> misses,
                      cache |-> cache,
                      result |-> NoResult]
    /\ UNCHANGED <<tasks, running, sets_made, settings, stored_by>>
    /\ UNCHANGED <<cache, hits, misses, gets, used, last_op>>
    /\ UNCHANGED client_vars

\* cached_data = cache.get(cache_key); if cached_data: return it.
serve_get ==
    /\ serving.pc = "get"
    /\ LET k == cache_key(serving.req)
           value == ttl_get(cache, k, now)
           found == [state |-> lookup(cache, k, now), value |-> value,
                     by |-> storer(k)]
       IN /\ cache' = ttl_touch(cache, k, now)
          /\ IF value # PyNone
             THEN /\ hits' = hits + 1
                  /\ UNCHANGED misses
             ELSE /\ misses' = misses + 1
                  /\ UNCHANGED hits
          /\ IF bool(value)
             THEN serving' = [serving EXCEPT
                                 !.pc = "done",
                                 !.lookup = "hit",
                                 !.found = found,
                                 !.value = value,
                                 !.result = served_response(serving.req, value, TRUE)]
             ELSE serving' = [serving EXCEPT
                                 !.pc = "construct",
                                 !.lookup = IF value # PyNone THEN "hit" ELSE "miss",
                                 !.found = found]
    /\ gets' = gets + 1
    /\ UNCHANGED <<now, used, last_op>>
    /\ UNCHANGED <<tasks, running, sets_made, arrived, settings, stored_by>>
    /\ UNCHANGED client_vars

\* netsuite_client = NetSuiteClient(...) from the settings.
serve_construct ==
    /\ serving.pc = "construct"
    /\ client' = init_client(settings)
    /\ IF all_credentials(settings)
       THEN serving' = [serving EXCEPT !.pc = "fetch"]
       ELSE serving' = [serving EXCEPT !.pc = "failed", !.error = MissingCredentials]
    /\ UNCHANGED <<signatures, requests, inflight, mr_vars, gr_vars, call_vars>>
    /\ UNCHANGED <<tasks, running, sets_made, arrived, settings, stored_by>>
    /\ UNCHANGED cache_vars

\* get_records: the list request of an attempt goes out (the requests of
\* the request served are told by its sent, not counted in requests).
serve_send ==
    /\ serving.pc = "fetch"
    /\ serving' = [serving EXCEPT !.pc = "attempt", !.sent = TRUE]
    /\ UNCHANGED client_vars
    /\ UNCHANGED <<tasks, running, sets_made, arrived, settings, stored_by>>
    /\ UNCHANGED cache_vars

\* The answer o arrives: _make_request sleeps before its next attempt, or
\* get_records ends and the handler goes on.
serve_answer(o) ==
    /\ serving.pc = "attempt"
    /\ LET s == iteration(serving.attempt, DefaultRetries, o)
           next == on_fetched(serving.req, s)
       IN IF s.act = "sleep"
          THEN serving' = [serving EXCEPT !.pc = "backoff"]
          ELSE serving' = [serving EXCEPT !.pc = next.pc,
                                          !.value = next.value,
                                          !.error = next.error]
    /\ UNCHANGED <<tasks, running, sets_made, arrived, settings, stored_by>>
    /\ UNCHANGED <<client_vars, cache_vars>>

\* asyncio.sleep returns and the loop goes to its next attempt.
serve_wake ==
    /\ serving.pc = "backoff"
    /\ serving' = [serving EXCEPT !.pc = "fetch", !.attempt = @ + 1]
    /\ UNCHANGED <<tasks, running, sets_made, arrived, settings, stored_by>>
    /\ UNCHANGED <<client_vars, cache_vars>>

\* cache.set(cache_key, data, ttl=300) and the return of the response.
serve_store ==
    /\ serving.pc = "store"
    /\ LET k == cache_key(serving.req) IN
          /\ cache' = set_item(cache, k, serving.value, HandlerTtl, now)
          /\ sets_made' = sets_made \cup {<<k, serving.value>>}
          /\ stored_by' = {p \in stored_by : p[1] # k}
                           \cup {<<k, [req |-> serving.req, value |-> serving.value]>>}
    /\ serving' = [serving EXCEPT
                      !.pc = "done",
                      !.stored = TRUE,
                      !.result = served_response(serving.req, serving.value, FALSE)]
    /\ UNCHANGED <<now, hits, misses, gets, used, last_op>>
    /\ UNCHANGED <<tasks, running, arrived, settings>>
    /\ UNCHANGED client_vars

\* except Exception as e: the failure becomes the handler's HTTP response.
serve_fail ==
    /\ serving.pc = "failed"
    /\ serving' = [serving EXCEPT
                      !.pc = "done",
                      !.result = error_response(serving.req, serving.error)]
    /\ UNCHANGED <<tasks, running, sets_made, arrived, settings, stored_by>>
    /\ UNCHANGED <<client_vars, cache_vars>>

InitServe ==
    /\ client = NoClient
    /\ InitCounters
    /\ InitMakeRequest
    /\ InitGetRecords
    /\ InitCache
    /\ tasks = [h \in Handlers |-> Idle]
    /\ running = NoTask
    /\ sets_made = {}
    /\ arrived = 0
    /\ settings \in ServeSettings
    /\ serving = Idle
    /\ stored_by = {}

NextServe ==
    \/ serve_arrive
    \/ serve_get
    \/ serve_construct
    \/ serve_send
    \/ \E o \in ServeOutcomes : serve_answer(o)
    \/ serve_wake
    \/ serve_store
    \/ serve_fail

SpecServe == InitServe /\ [][NextServe]_vars

\* C32: a response served from the cache goes only to a request whose
\* upstream-affecting parameters (entity, limit, offset, q, fields,
\* expandSubresources, expand) equal those of the request that stored it: two
\* requests to one endpoint that differ in such a parameter never share a
\* cache key.
C32_CachedResponseIsForTheSameParameters ==
    (serving.pc = "done" /\ serving.lookup = "hit") =>
        /\ serving.found.by # {}
        /\ \A by \in serving.found.by :
              /\ by.req.endpoint = serving.req.endpoint
              /\ forwarded(by.req) = forwarded(serving.req)

\* The request served has failed: its client could not be built, or the list
\* request of get_records raised.
FetchFailed == serving.pc \in {"failed", "done"} /\ serving.error # PyNone

\* A value that a handler returns for a failure.
IsErrorBody(v) ==
    /\ "dict" \in DOMAIN v
    /\ "success" \in DOMAIN v.dict
    /\ ~v.dict.success

\* C33: a handler whose upstream fetch fails (the client cannot be built, or
\* the list request of get_records raises) never calls cache.set: the cache
\* holds the same keys and values after the failed request as before it, and
\* no cached value is an error response.
C33_FailedFetchLeavesTheCacheAlone ==
    /\ FetchFailed =>
          /\ ~serving.stored
          /\ cache = serving.cache
          /\ serving.pc = "done" => serving.result = error_response(serving.req, serving.error)
    /\ \A i \in 1..Len(cache) : ~IsErrorBody(cache[i].value)

\* The custom endpoint has answered a request whose list request failed on
\* its third attempt, while the cache holds what an earlier request stored.
C33_Witness ==
    /\ serving.pc = "done"
    /\ serving.req.endpoint = "custom"
    /\ serving.error = RetriesExhausted
    /\ serving.attempt = DefaultRetries
    /\ serving.lookup = "miss"
    /\ Len(cache) = 1
    /\ IsErrorBody(serving.result.value.body)

\* The records endpoint has answered a request that failed because the
\* settings lack a credential.
C33_WitnessOfMissingCredentials ==
    /\ serving.pc = "done"
    /\ serving.error = MissingCredentials
    /\ client.state = "ValueError"

\* The list request of the running get_records call has ended in a failure.
ListFailed == gr_pc = "list" /\ awaited /\ mr_result.act = "raise"

\* A get_records call that has raised made no get_record call: the one
\* signature is that of the list request, and no item was handled.
RaisedBeforeAnyDetail ==
    (gr_pc = "done" /\ gr_result.act = "raise") =>
        /\ signatures = 1
        /\ data = PyNone
        /\ fetched = <<>>
        /\ detailed_items = <<>>

\* A detail fetch that failed did not fail the call.
DetailFailuresAreSwallowed ==
    (gr_pc = "done" /\ \E i \in 1..Len(fetched) : fetched[i].status = "failed") =>
        gr_result.act = "return"

\* C34: when the list request of get_records fails, get_records fails with
\* that very failure and issues no detail request, with expand_details true
\* too; a failure of a detail request never fails the call.
C34_ListFailureFailsTheCall ==
    /\ [](RaisedBeforeAnyDetail /\ DetailFailuresAreSwallowed)
    /\ [][ListFailed =>
            /\ gr_pc' = "done"
            /\ gr_result' = mr_result
            /\ requests' = requests
            /\ signatures' = signatures]_vars

\* With expand_details true, the call has raised the failure of a list
\* request that timed out on each of its attempts.
C34_Witness ==
    /\ gr_pc = "done"
    /\ expand_details
    /\ gr_result = Raise(RetriesExhausted)
    /\ requests = DefaultRetries
    /\ signatures = 1

\* The item has an id that is not empty.
HasId(item) == "id" \in DOMAIN item /\ item.id # ""

\* The loop stands at an item without an id.
AtItemWithoutId == gr_pc = "loop" /\ idx <= Len(items) /\ ~HasId(items[idx])

\* The items handled so far for which get_record was called.
Fetches == {i \in 1..Len(fetched) : fetched[i].status # "not fetched"}

\* The get_record calls of the running get_records call: each signs once,
\* after the one signature of the list request.
RecordCalls == IF signatures = 0 THEN 0 ELSE signatures - 1

\* get_record was called for exactly the handled items that have an id, and
\* an item without one stands unchanged at its position.
FetchedAreTheItemsWithId ==
    LET summaries == get_items(data) IN
    /\ \A i \in 1..Len(fetched) :
          /\ i \in Fetches <=> HasId(summaries[i])
          /\ i \notin Fetches => detailed_items[i] = summaries[i]
    /\ RecordCalls = Cardinality(Fetches) + (IF gr_pc = "detail" THEN 1 ELSE 0)

\* The calls of an ended get_records: one for each summary item with an id
\* when it expands, none otherwise.
CallsOfAnEndedCall ==
    LET summaries == get_items(data)
        with_id == {i \in 1..Len(summaries) : HasId(summaries[i])}
    IN gr_pc = "done" =>
          /\ RecordCalls = IF expand_details THEN Cardinality(with_id) ELSE 0
          /\ summaries = <<>> => RecordCalls = 0
          /\ (gr_result.act = "return" /\ expand_details) =>
                \A i \in 1..Len(summaries) :
                    i \notin with_id => gr_result.value.items[i] = summaries[i]

\* C35: during detail expansion a summary item without an id, or with an
\* empty one, triggers no upstream request and is kept unchanged at its
\* position; one get_records call makes as many get_record calls as there
\* are summary items with a non-empty id when expand_details is true, and
\* none when expand_details is false or the list is empty.
C35_ItemsWithoutIdAreKept ==
    /\ [](FetchedAreTheItemsWithId /\ CallsOfAnEndedCall)
    /\ [][AtItemWithoutId =>
            /\ requests' = requests
            /\ signatures' = signatures
            /\ mr_pc' = "idle"
            /\ detailed_items' = Append(detailed_items, items[idx])
            /\ idx' = idx + 1]_vars

\* A call that expands has ended on a list of an item with an id, one with
\* an empty id and one without the key: one get_record call was made.
C35_Witness ==
    /\ gr_pc = "done"
    /\ expand_details
    /\ get_items(data) = <<SummaryEmptyId, Summary1, SummaryNoId>>
    /\ signatures = 2
    /\ gr_result = Return(records_result(data, <<SummaryEmptyId, DocA, SummaryNoId>>))

\* A request with no_cache is being served, or has been.
Uncached == serving.pc # "idle" /\ serving.req.no_cache

\* A request with no_cache makes no cache lookup, so that hits and misses
\* stay as it found them, and is never answered from the cache: it builds
\* the client and, with a client, asks upstream before it is done.
NoCacheSkipsTheLookup ==
    Uncached =>
        /\ serving.lookup = "none"
        /\ hits = serving.hits
        /\ misses = serving.misses
        /\ serving.pc = "done" =>
              /\ client # NoClient
              /\ serving.sent <=> client.state = "ready"
              /\ serving.result # served_response(serving.req, serving.value, TRUE)

\* Its successful result is stored under its cache key and is what a read of
\* the key finds.
NoCacheStoresItsResult ==
    (Uncached /\ serving.pc = "done" /\ serving.error = PyNone) =>
        /\ serving.stored
        /\ serving.result = served_response(serving.req, serving.value, FALSE)
        /\ ttl_get(cache, cache_key(serving.req), now) = serving.value
        /\ storer(cache_key(serving.req)) =
               {[req |-> serving.req, value |-> serving.value]}

\* A later request without no_cache whose key holds the unexpired entry of a
\* no_cache request is answered with what that request stored, and asks
\* nothing upstream.
LaterRequestIsServedTheStoredResult ==
    (/\ serving.pc = "done"
     /\ ~serving.req.no_cache
     /\ serving.found.state = "live"
     /\ \E by \in serving.found.by : by.req.no_cache) =>
        /\ serving.lookup = "hit"
        /\ ~serving.sent
        /\ ~serving.stored
        /\ hits = serving.hits + 1
        /\ \A by \in serving.found.by :
              serving.result = served_response(serving.req, by.value, TRUE)

\* A later request without no_cache whose key was last set by a no_cache
\* request is answered with what that request stored, whenever it comes.
LaterRequestIsAlwaysServedTheStoredResult ==
    (/\ serving.pc = "done"
     /\ ~serving.req.no_cache
     /\ \E by \in serving.found.by : by.req.no_cache) =>
        /\ serving.lookup = "hit"
        /\ ~serving.sent
        /\ \A by \in serving.found.by :
              serving.result = served_response(serving.req, by.value, TRUE)

\* C36 (as claimed): a request with no_cache = true makes no cache lookup
\* (hits and misses are unchanged by it) and always fetches upstream, but
\* still stores its successful result under its cache key, so that a later
\* request with the same key and no_cache = false is served that result.
C36_NoCacheStoresForEveryLaterRequest ==
    /\ NoCacheSkipsTheLookup
    /\ NoCacheStoresItsResult
    /\ LaterRequestIsAlwaysServedTheStoredResult

\* C36: a request with no_cache = true makes no cache lookup (hits and
\* misses are unchanged by it) and always goes on to the upstream fetch,
\* but still stores its successful result under its cache key, so that a
\* later request with the same key and no_cache = false that finds the
\* entry unexpired is served that result.
C36_NoCacheSkipsTheLookupAndStillStores ==
    /\ NoCacheSkipsTheLookup
    /\ NoCacheStoresItsResult
    /\ LaterRequestIsServedTheStoredResult

\* A request without no_cache has been answered from the entry that a
\* no_cache request with the same key stored a second before.
C36_Witness ==
    /\ serving.pc = "done"
    /\ arrived = 2
    /\ now = 1
    /\ serving.req.endpoint = "records"
    /\ ~serving.req.no_cache
    /\ serving.lookup = "hit"
    /\ \E by \in serving.found.by :
          /\ by.req = [serving.req EXCEPT !.no_cache = TRUE]
          /\ serving.result = Return([body |-> by.value, cached |-> TRUE])
    /\ hits = 1
    /\ misses = 0

(***************************************************************************)
(* Claims about what a stored entry goes through, checked under SpecCache. *)
(***************************************************************************)
\* The unexpired entry of key k at time t, as a set of at most one.
live_entry(c, k, t) == {e \in stored(c, k) : t < e.expires}

\* The step is a call of the cache operation op (no time passes in it).
CallOf(op) == now' = now /\ last_op'.op = op

\* get(k) returns the value of the unexpired entry of k, None without one,
\* and leaves the entry, its expiry included, as it was.
GetReturnsTheEntry(k) ==
    (CallOf("get") /\ last_op'.key = k) =>
        /\ last_op'.ret = IF live_entry(cache, k, now) = {}
                          THEN PyNone
                          ELSE (CHOOSE e \in live_entry(cache, k, now) : TRUE).value
        /\ live_entry(cache', k, now') = live_entry(cache, k, now)

\* set(k, v) returns true and makes v the entry of k, whatever was stored
\* for k before, expiring DefaultTtl seconds from this set.
SetReplacesTheEntry(k) ==
    (CallOf("set") /\ last_op'.key = k) =>
        /\ last_op'.ret = TRUE
        /\ live_entry(cache', k, now') =
              {Entry(k, last_op'.value, now + DefaultTtl)}
        /\ \A t \in now..(MaxClock + DefaultTtl) :
              ttl_get(cache', k, t) =
                  IF t < now + DefaultTtl THEN last_op'.value ELSE PyNone

\* A get or set of another key, get_stats and keys leave the entry of k as
\* it was, unless it is a set into a full cache whose least recently used
\* key is k.
OtherKeysLeaveTheEntry(k) ==
    \/ (CallOf("get") \/ CallOf("set")) /\ last_op'.key # k
    \/ CallOf("get_stats")
    \/ CallOf("keys")
    => \/ live_entry(cache', k, now') = live_entry(cache, k, now)
       \/ /\ CallOf("set")
          /\ last_op'.full
          /\ last_op'.lru = k
          /\ live_entry(cache', k, now') = {}

\* A second that passes leaves the entry of k as it was until its expiry.
TimeLeavesTheEntry(k) ==
    now' = now + 1 =>
        live_entry(cache', k, now') =
            {e \in live_entry(cache, k, now) : now + 1 < e.expires}

\* A get(k) that directly follows a set(k, v) returns v until DefaultTtl
\* seconds have passed since that set.
GetAfterSetReturnsItsValue ==
    (last_op.op = "get" /\ last_op.prev.op = "set"
        /\ last_op.prev.elapsed < DefaultTtl)
    => last_op.ret = last_op.prev.value

\* C37: after set(k, v) returns true, and until the default TTL elapses, k is
\* deleted, the cache is cleared or k is evicted, every get(k) returns the
\* value of the most recent set on k (an overwrite replaces the value and
\* restarts the entry's TTL), and set/get on other keys never change the
\* value returned for k.
C37_GetReturnsTheMostRecentSet ==
    /\ []GetAfterSetReturnsItsValue
    /\ [][\A k \in Keys :
             /\ GetReturnsTheEntry(k)
             /\ SetReplacesTheEntry(k)
             /\ OtherKeysLeaveTheEntry(k)
             /\ TimeLeavesTheEntry(k)]_vars

\* A get at time 2 of a key that was set at time 1, with another operation
\* between the two and another key stored, has returned the value set.
C37_Witness ==
    /\ last_op.op = "get"
    /\ last_op.prev.op = "none"
    /\ last_op.ret = [v |-> 2]
    /\ cache # <<>>
    /\ cache[Len(cache)] = Entry(last_op.key, [v |-> 2], 1 + DefaultTtl)
    /\ Len(cache) = MaxSize
    /\ now = 2

\* delete(k) returns true exactly when k had an unexpired entry; afterwards
\* k has none, every other key's entry and the order of the entries are as
\* before, and so are the counters.
DeleteRemovesOnlyItsKey ==
    CallOf("delete") =>
        LET k == last_op'.key IN
        /\ last_op'.ret = (live_entry(cache, k, now) # {})
        /\ live_entry(cache', k, now') = {}
        /\ ttl_get(cache', k, now') = PyNone
        /\ k \notin live_keys(cache', now')
        /\ without(cache', k) = without(cache, k)
        /\ \A j \in Keys \ {k} : stored(cache', j) = stored(cache, j)
        /\ hits' = hits
        /\ misses' = misses

\* clear() returns true and leaves no entry, no key and a size of 0, and the
\* counters as before.
ClearRemovesEveryEntry ==
    CallOf("clear") =>
        /\ last_op'.ret = TRUE
        /\ cache' = <<>>
        /\ ttl_len(cache', now') = 0
        /\ live_keys(cache', now') = {}
        /\ hits' = hits
        /\ misses' = misses

\* The maxsize that get_stats reports is the one the cache was built with,
\* whatever was cleared before.
MaxsizeIsFixed ==
    last_op.op = "get_stats" => last_op.ret.maxsize = MaxSize

\* C38: delete(k) returns true exactly when k was present and unexpired
\* immediately before the call; afterwards k is absent, and all other entries
\* and the hits/misses counters are unchanged; clear() leaves the cache with
\* size 0 and no keys and leaves hits, misses and maxsize unchanged.
C38_DeleteAndClearTouchNothingElse ==
    /\ []MaxsizeIsFixed
    /\ [][DeleteRemovesOnlyItsKey /\ ClearRemovesEveryEntry]_vars

\* A delete has returned true and left the other key's entry stored, on a
\* cache that had counted a hit and a miss.
C38_Witness ==
    /\ last_op.op = "delete"
    /\ last_op.ret = TRUE
    /\ stored(cache, last_op.key) = {}
    /\ Len(cache) = 1
    /\ hits = 1
    /\ misses = 1

\* A delete of a key whose entry had expired has returned false.
C38_WitnessOfExpired ==
    /\ last_op.op = "delete"
    /\ last_op.ret = FALSE
    /\ stored(cache, last_op.key) # {}

(***************************************************************************)
(* Claim about the status of a failed request, checked under SpecServe.    *)
(***************************************************************************)
\* The request in service was for the records endpoint and has ended in a
\* failure of the fetch.
RecordsRequestFailed ==
    /\ serving.pc = "done"
    /\ serving.req.endpoint = "records"
    /\ serving.error # PyNone

\* C39: in the records endpoint the HTTP status returned for a failed fetch
\* is determined by the upstream status alone: an upstream failure with
\* status 401, 404 or 429 is answered with that same status, and every other
\* failure (other upstream statuses, exhausted retries, missing credentials)
\* with 500, irrespective of the upstream response body text.
C39_StatusFollowsTheUpstreamStatus ==
    RecordsRequestFailed =>
        /\ serving.result.act = "raise"
        /\ serving.result.error =
              HTTPException(http_status_of_upstream_status(serving.error))

====
